---- MODULE Spec2Model ----
(***************************************************************************)
(* Verification model of the multi-game console (Boring206/raspberrypi).   *)
(*                                                                         *)
(*  - Spec      : the console state machine of main.py, one main-loop      *)
(*                iteration per step, plus the control-button thread that  *)
(*                feeds the event queue.                                   *)
(*  - SpecHw    : EnhancedGameConsole.initialize_hardware.                 *)
(*  - SpecSnake : one EnhancedSnakeGame instance driven by update().       *)
(*  - SpecTwin  : two snake instances fed the same inputs and the same     *)
(*                random draws but their own clock readings.               *)
(*  - SpecMerge : SystemConfig._merge_config on bounded configurations.    *)
(*  - SpecBuzzer: the BuzzerControl worker thread and its callers.         *)
(*  - SpecThreads: the main loop and the two monitor threads around the    *)
(*                controller driver and the button queue.                  *)
(*  - SpecLight : one TrafficLight, GPIO write by GPIO write.              *)
(*  - SpecButton: the GameControlButton monitor thread against the button. *)
(*  - SpecQueue : the button's event queue, the monitor thread putting and *)
(*                the main loop draining.                                  *)
(*  - SpecKeypad: MatrixKeypad.get_key against the keys held down.         *)
(*  - SpecStats : the session statistics and the game-over screen.         *)
(*                                                                         *)
(* Time is counted in tenths of a second in the console, where a timestamp *)
(* the code stores is kept as the time elapsed since it was taken,         *)
(* saturating at the largest value any comparison in the code can          *)
(* distinguish, and in ticks of 1/24 s in the snake game.                  *)
(***************************************************************************)
EXTENDS Integers, Sequences, FiniteSets, TLC

VARIABLES console, event_queue, last, hw, game, twin,
          config, buzzer_control, threads, light, button, keypad, session

vars == <<console, event_queue, last, hw, game, twin,
          config, buzzer_control, threads, light, button, keypad, session>>

\* The variables of SpecLight, SpecButton and SpecKeypad, idle elsewhere
devices == <<light, button, keypad>>
\* The variables of SpecMerge, SpecBuzzer, SpecThreads and of the device
\* specifications, idle elsewhere
others == <<config, buzzer_control, threads, devices, session>>
Idle == [ phase |-> "idle" ]
DevicesIdle == light = Idle /\ button = Idle /\ keypad = Idle
OthersIdle ==
    /\ config = Idle /\ buzzer_control = Idle /\ threads = Idle /\ DevicesIdle
    /\ session = Idle

----------------------------------------------------------------------------
(* Bounds of the model.                                                    *)

MaxPlays == 1       \* game starts explored per session
MaxQueue == 1       \* button events waiting in the queue

Min(a, b) == IF a < b THEN a ELSE b
Max(a, b) == IF a > b THEN a ELSE b

----------------------------------------------------------------------------
(* Program constants of main.py.                                           *)

\* self.games: the game_class of every entry, in list order
Games == << "SnakeGame", "BrickBreakerGame", "SpaceInvadersGame",
            "TicTacToeGame", "MemoryMatchGame", "SimpleMazeGame",
            "WhacAMoleGame", "TetrisLikeGame", "ReactionTestGame" >>

NumGames == Len(Games)

input_cooldown == 2        \* 0.2 s
CountdownStep == 5         \* 0.5 s per countdown colour
CountdownTotal == 15       \* 1.5 s before the game is built
GameOverHold == 30         \* 3 s on the game-over screen

\* KEY_MAP of the 4x4 keypad, plus "none" for get_key() returning None
Digits == {"0", "1", "2", "3", "4", "5", "6", "7", "8", "9"}
Letters == {"A", "B", "C", "D", "*", "#"}
Keys == Digits \cup Letters \cup {"none"}

\* int(key_pressed): defined on the digit keys, ValueError on the others
KeyValue(key) ==
    CASE key = "0" -> 0 [] key = "1" -> 1 [] key = "2" -> 2 [] key = "3" -> 3
      [] key = "4" -> 4 [] key = "5" -> 5 [] key = "6" -> 6 [] key = "7" -> 7
      [] key = "8" -> 8 [] key = "9" -> 9

\* XboxController.get_input(): the flags the console reads. The stick cannot
\* be above and below the threshold at once.
NoPad == [up |-> FALSE, down |-> FALSE, a |-> FALSE, b |-> FALSE]
PadInputs == { p \in [up : BOOLEAN, down : BOOLEAN, a : BOOLEAN, b : BOOLEAN] :
                 ~(p.up /\ p.down) }

NoGame == [cls |-> "None"]

States == {"STARTUP", "MENU", "INSTRUCTION", "GAME_STARTING", "GAME",
           "GAME_PAUSED", "GAME_OVER", "ERROR"}

----------------------------------------------------------------------------
(* TrafficLight: the set of lit lamps.                                      *)

TLAllOff(c) == IF c.traffic_light THEN [c EXCEPT !.lights = {}] ELSE c
TLRedOn(c) == IF c.traffic_light THEN [c EXCEPT !.lights = {"red"}] ELSE c
TLYellowOn(c) == IF c.traffic_light THEN [c EXCEPT !.lights = {"yellow"}] ELSE c
TLGreenOn(c) == IF c.traffic_light THEN [c EXCEPT !.lights = {"green"}] ELSE c

----------------------------------------------------------------------------
(* The console object after a successful initialize_hardware.               *)
(*  keypad .. power_button : whether the attribute holds a driver (TRUE)   *)
(*                           or None (FALSE); the screen only draws and is  *)
(*                           left out                                       *)
(*  input_elapsed  : now - last_input_time, saturating at input_cooldown   *)
(*  start_elapsed  : now - game_start_time, saturating at CountdownTotal   *)
(*  has_over_start : hasattr(self, '_game_over_start_time')                *)
(*  over_elapsed   : now - _game_over_start_time, saturating past the hold *)
(*  selected_game  : index of selected_game_data in self.games             *)
(*  cleaned        : current_game.cleanup() calls made by this iteration   *)
(*  exc            : an exception is propagating out of the current tick   *)

\* BuzzerControl.__init__ assigns GPIO_AVAILABLE without declaring it global,
\* so its first read raises UnboundLocalError: the constructor never returns
\* and _init_buzzer always reports failure (self.buzzer stays None).
InitBuzzer == FALSE

\* EnhancedGameConsole.__init__ followed by the peripheral outcome of
\* initialize_hardware: present[p] is TRUE when the attribute holds a driver.
NewConsole(present) ==
    [ state |-> "STARTUP",
      current_selection |-> 0,
      current_game |-> NoGame,
      running |-> TRUE,
      keypad |-> present.keypad,
      controller |-> present.controller,
      buzzer |-> present.buzzer,
      traffic_light |-> present.traffic_light,
      power_button |-> present.power_button,
      lights |-> {},
      input_elapsed |-> input_cooldown,
      start_elapsed |-> 0,
      selected_game |-> 0,
      has_over_start |-> FALSE,
      over_elapsed |-> 0,
      games_played |-> 0,
      cleaned |-> 0,
      exc |-> FALSE ]

\* One tenth of a second passing: every stored timestamp is that much older
\* at the next time.time()
AdvanceTime(c) ==
    [c EXCEPT !.input_elapsed = Min(@ + 1, input_cooldown),
              !.start_elapsed = IF c.state = "GAME_STARTING"
                                THEN Min(@ + 1, CountdownTotal) ELSE @,
              !.over_elapsed = IF c.has_over_start
                               THEN Min(@ + 1, GameOverHold + 1) ELSE @]

\* An end of game that drops the instance without calling its cleanup()
EndCurrentGameNoCleanup(c) ==
    IF c.current_game # NoGame THEN [c EXCEPT !.current_game = NoGame] ELSE c

\* end_current_game
EndCurrentGame(c) ==
    IF c.current_game # NoGame
    THEN [c EXCEPT !.current_game = NoGame, !.cleaned = @ + 1]
    ELSE c

\* A pause toggle that resumes from any state
HandlePauseToggleAnyState(c) ==
    IF c.state = "GAME" THEN TLYellowOn([c EXCEPT !.state = "GAME_PAUSED"])
    ELSE TLGreenOn([c EXCEPT !.state = "GAME"])

\* _handle_pause_toggle
HandlePauseToggle(c) ==
    IF c.state = "GAME" THEN TLYellowOn([c EXCEPT !.state = "GAME_PAUSED"])
    ELSE IF c.state = "GAME_PAUSED" THEN TLGreenOn([c EXCEPT !.state = "GAME"])
    ELSE c

\* A return to the menu that does not look at the state
HandleReturnToMenuAnyState(c) ==
    IF c.current_game # NoGame
    THEN [c EXCEPT !.current_game = NoGame, !.cleaned = @ + 1,
                   !.state = "MENU",
                   !.lights = IF c.traffic_light THEN {} ELSE @]
    ELSE [c EXCEPT !.state = "MENU",
                   !.lights = IF c.traffic_light THEN {} ELSE @]

\* _handle_return_to_menu
HandleReturnToMenu(c) ==
    IF c.state \in {"GAME", "GAME_PAUSED", "INSTRUCTION"}
    THEN TLAllOff([EndCurrentGame(c) EXCEPT !.state = "MENU"])
    ELSE c

\* _handle_power_button_events: the events drained from the button's queue,
\* handled in order
RECURSIVE HandleEvents(_, _)
HandleEvents(c, events) ==
    IF events = << >> THEN c
    ELSE LET e == Head(events)
             c1 == IF e = "toggle_pause" THEN HandlePauseToggle(c)
                   ELSE IF e = "return_to_menu" THEN HandleReturnToMenu(c)
                   ELSE c
         IN HandleEvents(c1, Tail(events))

HandlePowerButtonEvents(c, queue) ==
    IF ~c.power_button THEN c ELSE HandleEvents(c, queue)

\* _can_process_input
CanProcessInput(c) == c.input_elapsed >= input_cooldown

\* _process_menu_input, the keypad block
MenuKeypadInput(c, key) ==
    IF ~c.keypad \/ key = "none" THEN c
    ELSE LET c1 == [c EXCEPT !.input_elapsed = 0] IN
         IF key \in Digits
         THEN IF 1 <= KeyValue(key) /\ KeyValue(key) <= 9
                   /\ KeyValue(key) <= NumGames
              THEN TLYellowOn([c1 EXCEPT !.current_selection = KeyValue(key) - 1,
                                         !.state = "INSTRUCTION"])
              ELSE c1
         ELSE IF key = "D" THEN TLAllOff(c1) ELSE c1

\* The controller block with the selection clamped at the ends of the list
MenuControllerInputClamped(c, pad) ==
    IF ~c.controller THEN c
    ELSE IF pad.up
    THEN [c EXCEPT !.current_selection = Max(@ - 1, 0), !.input_elapsed = 0]
    ELSE IF pad.down
    THEN [c EXCEPT !.current_selection = Min(@ + 1, NumGames - 1),
                   !.input_elapsed = 0]
    ELSE c

\* _process_menu_input, the controller block. The last test parses as
\* (buzzer and up_pressed) or down_pressed, so with no buzzer a "down" reaches
\* self.buzzer.play_tone on None and raises.
MenuControllerInput(c, pad) ==
    IF ~c.controller THEN c
    ELSE LET c1 == IF pad.up
                   THEN [c EXCEPT !.current_selection =
                                     (@ - 1 + NumGames) % NumGames]
                   ELSE IF pad.down
                   THEN [c EXCEPT !.current_selection = (@ + 1) % NumGames]
                   ELSE IF pad.a
                   THEN TLYellowOn([c EXCEPT !.state = "INSTRUCTION"])
                   ELSE c
             input_detected == pad.up \/ pad.down \/ pad.a
         IN IF ~input_detected THEN c1
            ELSE LET c2 == [c1 EXCEPT !.input_elapsed = 0] IN
                 IF (c.buzzer /\ pad.up) \/ pad.down
                 THEN IF c.buzzer THEN c2 ELSE [c2 EXCEPT !.exc = TRUE]
                 ELSE c2

ProcessMenuInput(c, key, pad) ==
    MenuControllerInput(MenuKeypadInput(c, key), pad)

\* _handle_menu
HandleMenu(c, key, pad) ==
    IF CanProcessInput(c) THEN ProcessMenuInput(c, key, pad) ELSE c

\* _start_game_sequence
StartGameSequence(c) ==
    [c EXCEPT !.state = "GAME_STARTING",
              !.start_elapsed = 0,
              !.selected_game = c.current_selection]

\* _return_to_menu
ReturnToMenu(c) == [TLAllOff(c) EXCEPT !.state = "MENU"]

\* _handle_instruction, the keypad block
InstructionKeypadInput(c, key) ==
    IF ~c.keypad THEN c
    ELSE IF key = "A" THEN StartGameSequence(c)
    ELSE IF key = "D" THEN ReturnToMenu(c)
    ELSE c

\* _handle_instruction, the controller block. selected_game_data was read
\* from games[current_selection] on entry to the handler.
InstructionControllerInput(c, pad) ==
    IF ~c.controller THEN c
    ELSE IF pad.a THEN StartGameSequence(c)
    ELSE IF pad.b THEN ReturnToMenu(c)
    ELSE c

HandleInstruction(c, key, pad) ==
    IF CanProcessInput(c)
    THEN InstructionControllerInput(InstructionKeypadInput(c, key), pad)
    ELSE c

\* A start that counts the game before building it
ActuallyStartGameCountFirst(c, ctor_ok) ==
    IF ctor_ok
    THEN [c EXCEPT !.current_game = [cls |-> Games[c.selected_game + 1]],
                   !.state = "GAME",
                   !.games_played = @ + 1]
    ELSE [c EXCEPT !.state = "MENU", !.games_played = @ + 1]

\* _actually_start_game: ctor_ok is whether game_class(...) returned
ActuallyStartGame(c, ctor_ok) ==
    IF ctor_ok
    THEN [c EXCEPT !.current_game = [cls |-> Games[c.selected_game + 1]],
                   !.state = "GAME",
                   !.games_played = @ + 1]
    ELSE [c EXCEPT !.state = "MENU"]

\* A countdown that shows green first and red last
HandleGameStartingReversed(c, ctor_ok) ==
    IF c.start_elapsed < CountdownTotal
    THEN LET countdown == 3 - (c.start_elapsed \div CountdownStep) IN
         IF countdown = 3 THEN TLGreenOn(c)
         ELSE IF countdown = 2 THEN TLYellowOn(c)
         ELSE IF countdown = 1 THEN TLRedOn(c)
         ELSE c
    ELSE ActuallyStartGame(c, ctor_ok)

\* _handle_game_starting
HandleGameStarting(c, ctor_ok) ==
    IF c.start_elapsed < CountdownTotal
    THEN LET countdown == 3 - (c.start_elapsed \div CountdownStep) IN
         IF countdown = 3 THEN TLRedOn(c)
         ELSE IF countdown = 2 THEN TLYellowOn(c)
         ELSE IF countdown = 1 THEN TLGreenOn(c)
         ELSE c
    ELSE ActuallyStartGame(c, ctor_ok)

\* A game handler that ends the game on any status
HandleGameAnyStatus(c, upd) ==
    IF c.current_game = NoGame THEN c
    ELSE IF upd = "raise" THEN [c EXCEPT !.exc = TRUE]
    ELSE [c EXCEPT !.state = "GAME_OVER"]

\* _handle_game: upd is what current_game.update() did, "running" (a status
\* without game_over), "game_over" or "raise". The status kept in
\* game_over_data and the session statistics are only shown and saved.
HandleGame(c, upd) ==
    IF c.current_game = NoGame THEN c
    ELSE IF upd = "raise" THEN [c EXCEPT !.exc = TRUE]
    ELSE IF upd = "game_over" THEN [c EXCEPT !.state = "GAME_OVER"]
    ELSE c

\* _handle_game_paused: draws the pause screen only
HandleGamePaused(c) == c

\* _handle_game_over
HandleGameOver(c) ==
    LET c1 == IF ~c.has_over_start
              THEN TLRedOn([c EXCEPT !.has_over_start = TRUE,
                                     !.over_elapsed = 0])
              ELSE c
    IN IF c1.over_elapsed > GameOverHold
       THEN [TLAllOff([EndCurrentGame(c1) EXCEPT !.state = "MENU"])
                EXCEPT !.has_over_start = FALSE, !.over_elapsed = 0]
       ELSE c1

\* An error handler that goes back to the menu
HandleErrorRecovers(c) == [c EXCEPT !.state = "MENU"]

\* _handle_error: draws the error screen only
HandleError(c) == c

\* _handle_startup
HandleStartup(c) == [c EXCEPT !.state = "MENU"]

\* A dispatch that keeps updating the game while it is paused
HandleCurrentStateUpdatesPaused(c, key, pad, ctor_ok, upd) ==
    CASE c.state = "STARTUP" -> HandleStartup(c)
      [] c.state = "MENU" -> HandleMenu(c, key, pad)
      [] c.state = "INSTRUCTION" -> HandleInstruction(c, key, pad)
      [] c.state = "GAME_STARTING" -> HandleGameStarting(c, ctor_ok)
      [] c.state = "GAME" -> HandleGame(c, upd)
      [] c.state = "GAME_PAUSED" -> HandleGame(c, upd)
      [] c.state = "GAME_OVER" -> HandleGameOver(c)
      [] c.state = "ERROR" -> HandleError(c)

\* _handle_current_state
HandleCurrentState(c, key, pad, ctor_ok, upd) ==
    CASE c.state = "STARTUP" -> HandleStartup(c)
      [] c.state = "MENU" -> HandleMenu(c, key, pad)
      [] c.state = "INSTRUCTION" -> HandleInstruction(c, key, pad)
      [] c.state = "GAME_STARTING" -> HandleGameStarting(c, ctor_ok)
      [] c.state = "GAME" -> HandleGame(c, upd)
      [] c.state = "GAME_PAUSED" -> HandleGamePaused(c)
      [] c.state = "GAME_OVER" -> HandleGameOver(c)
      [] c.state = "ERROR" -> HandleError(c)

\* _handle_pygame_events, for one event of pygame.event.get()
HandlePygameEvents(c, ev) ==
    IF ev = "QUIT" THEN [c EXCEPT !.running = FALSE]
    ELSE IF ev = "ESCAPE"
    THEN IF c.state = "GAME" THEN HandleReturnToMenu(c)
         ELSE [c EXCEPT !.running = FALSE]
    ELSE c

\* cleanup, as far as the console object goes
Cleanup(c) == TLAllOff(EndCurrentGame(c))

\* One iteration of the while loop of run(): the try body up to the first
\* exception, the except clause, and cleanup() once running is False.
RunIteration(c, queue, key, pad, ctor_ok, upd, ev) ==
    LET c1 == HandlePowerButtonEvents([c EXCEPT !.cleaned = 0], queue)
        c2 == HandleCurrentState(c1, key, pad, ctor_ok, upd)
        c3 == IF c2.exc THEN c2 ELSE HandlePygameEvents(c2, ev)
        c4 == IF c3.exc THEN [c3 EXCEPT !.state = "ERROR", !.exc = FALSE] ELSE c3
    IN IF c4.running THEN c4 ELSE Cleanup(c4)

----------------------------------------------------------------------------
(* What the latest main-loop iteration that changed the console read and   *)
(* did (history, written by the model only; forgotten once time moves on).  *)
(*  disp : state when _handle_current_state dispatched                      *)
(*  ctor : whether a game constructor ran and how it ended                  *)
(*  upd  : what the game's update() did                                     *)
(*  sel_in : current_selection on entry to the menu's controller block      *)
(*  raised : an exception reached the except clause of run()                *)

NoLast == [ disp |-> "none", ctor |-> "none", upd |-> "none", sel_in |-> 0,
            raised |-> FALSE ]

----------------------------------------------------------------------------
(* initialize_hardware.                                                     *)

Peripherals == {"spi_screen", "keypad", "controller", "buzzer",
                "traffic_light", "power_button"}

\* How an _init_* helper can end: "ok" (driver built and usable, helper
\* returns True), "unusable" (driver built and kept in the attribute, but
\* its device is missing: helper returns False), "raised" (the constructor
\* raised: attribute stays None, helper returns False).
\* MatrixKeypad._setup and GameControlButton.setup_gpio swallow their own
\* exceptions, so those two constructors always return; the buzzer's never
\* does; only the screen and the controller test the driver after building it.
InitResults(p) ==
    CASE p = "keypad" -> {"ok"}
      [] p = "power_button" -> {"ok"}
      [] p = "buzzer" -> IF InitBuzzer THEN {"ok"} ELSE {"raised"}
      [] p = "traffic_light" -> {"ok", "raised"}
      [] OTHER -> {"ok", "unusable", "raised"}

\* The majority test on hardware_results
TooManyFailedOrHalf(failed, attempted) == 2 * failed >= attempted
TooManyFailed(failed, attempted) == 2 * failed > attempted

\* initialize_hardware: cfg[p] is the config switch of peripheral p, res[p]
\* how its _init_* helper ended, gpio and pygame the two mandatory steps.
\* Gives the return value and which attributes hold a driver afterwards.
InitializeHardware(cfg, res, gpio, pygame) ==
    LET attempted == { p \in Peripherals : cfg[p] }
        failed == { p \in attempted : res[p] # "ok" }
    IN IF ~gpio \/ ~pygame
       THEN [ returned |-> FALSE, attempted |-> {}, failed |-> {},
              present |-> [p \in Peripherals |-> FALSE] ]
       ELSE [ returned |-> ~TooManyFailed(Cardinality(failed),
                                          Cardinality(attempted)),
              attempted |-> attempted,
              failed |-> failed,
              present |-> [p \in Peripherals |->
                              cfg[p] /\ res[p] # "raised"] ]

HwConfigs == [Peripherals -> BOOLEAN]
HwResults == { r \in [Peripherals -> {"ok", "unusable", "raised"}] :
                 \A p \in Peripherals : r[p] \in InitResults(p) }

HwIdle == [ phase |-> "idle" ]

InitHw ==
    /\ \E cfg \in HwConfigs, gpio \in BOOLEAN, pygame \in BOOLEAN :
          hw = [ phase |-> "configured", cfg |-> cfg,
                 gpio |-> gpio, pygame |-> pygame ]
    /\ console = NewConsole([p \in Peripherals |-> FALSE])
    /\ event_queue = << >>
    /\ last = NoLast
    /\ game = [ phase |-> "idle" ]
    /\ twin = [ phase |-> "idle" ]
    /\ OthersIdle

\* run() calling initialize_hardware once
HwInitialize ==
    /\ hw.phase = "configured"
    /\ \E res \in HwResults :
          LET r == InitializeHardware(hw.cfg, res, hw.gpio, hw.pygame) IN
          /\ hw' = [ phase |-> "done", cfg |-> hw.cfg, res |-> res,
                     gpio |-> hw.gpio, pygame |-> hw.pygame,
                     returned |-> r.returned, attempted |-> r.attempted,
                     failed |-> r.failed, present |-> r.present ]
          /\ console' = IF r.returned THEN NewConsole(r.present) ELSE console
    /\ UNCHANGED <<event_queue, last, game, twin, others>>

NextHw == HwInitialize

SpecHw == InitHw /\ [][NextHw]_vars

----------------------------------------------------------------------------
(* The running console: Spec.                                               *)

PygameEvents == {"none", "QUIT", "ESCAPE"}

NoUpdate == "none"
UpdateOutcomes == {"running", "game_over", "raise"}

ReadsInput(c) == c.state \in {"MENU", "INSTRUCTION"} /\ CanProcessInput(c)
\* The inputs a handler can tell apart. The menu tells the digits and 'D'
\* from the other keys, the instruction page 'A' and 'D': 'B' (and '1' on
\* the instruction page) stands for the keys a handler treats alike.
KeyChoices(c) ==
    IF ReadsInput(c) /\ c.keypad
    THEN IF c.state = "MENU" THEN Digits \cup {"none", "B", "D"}
         ELSE {"none", "A", "B", "D", "1"}
    ELSE {"none"}
\* The menu's if/elif chain takes the first of up, down, a that is set, the
\* instruction page's the first of a, b: each is explored pressed alone.
PadChoices(c) ==
    IF ReadsInput(c) /\ c.controller
    THEN IF c.state = "MENU"
         THEN { p \in PadInputs : ~p.b /\ (p.a => ~p.up /\ ~p.down) }
         ELSE { p \in PadInputs : ~p.up /\ ~p.down /\ ~(p.a /\ p.b) }
    ELSE {NoPad}
\* The window events of one iteration; c is the console after the state
\* handler. Outside a game the ESCAPE key does what closing the window does
\* and is explored as QUIT. An event is explored on the iterations that read
\* no key and no button: with one, the iteration that handles the input and
\* the next one that handles the event end in the same console.
EvChoices(c, key, pad) ==
    IF c.exc \/ key # "none" \/ pad # NoPad THEN {"none"}
    ELSE IF c.state = "GAME" THEN PygameEvents
    ELSE {"none", "QUIT"}
CtorChoices(c) == IF c.state = "GAME_STARTING" /\ c.start_elapsed >= CountdownTotal
                  THEN BOOLEAN ELSE {TRUE}
UpdChoices(c) == IF c.state = "GAME" /\ c.current_game # NoGame
                 THEN UpdateOutcomes ELSE {NoUpdate}

Init ==
    /\ \E cfg \in HwConfigs, res \in HwResults :
          LET r == InitializeHardware(cfg, res, TRUE, TRUE) IN
          /\ r.returned
          /\ console = NewConsole(r.present)
    /\ event_queue = << >>
    /\ last = NoLast
    /\ hw = HwIdle
    /\ game = [ phase |-> "idle" ]
    /\ twin = [ phase |-> "idle" ]
    /\ OthersIdle

\* One pass through the body of the while loop of run()
Tick ==
    /\ console.running
    /\ LET c1 == HandlePowerButtonEvents(console, event_queue) IN
       \E key \in KeyChoices(c1), pad \in PadChoices(c1),
          ctor_ok \in CtorChoices(c1), upd \in UpdChoices(c1) :
          \E ev \in EvChoices(HandleCurrentState(c1, key, pad, ctor_ok, upd),
                               key, pad) :
             LET after == RunIteration(console, event_queue, key, pad,
                                       ctor_ok, upd, ev)
             IN
             /\ after.games_played <= MaxPlays
             /\ console' = after
             /\ last' = IF after = console THEN last ELSE
                        [ disp |-> c1.state,
                          ctor |-> IF c1.state = "GAME_STARTING"
                                      /\ c1.start_elapsed >= CountdownTotal
                                   THEN (IF ctor_ok THEN "ok" ELSE "raised")
                                   ELSE "none",
                          upd |-> upd,
                          sel_in |-> IF c1.state = "MENU" /\ CanProcessInput(c1)
                                     THEN MenuKeypadInput(c1, key).current_selection
                                     ELSE 0,
                          raised |-> c1.state # "ERROR" /\ after.state = "ERROR" ]
    /\ event_queue' = IF console.power_button THEN << >> ELSE event_queue
    /\ UNCHANGED <<hw, game, twin, others>>

\* Time passing between two readings of the clock
ClockAdvance ==
    /\ console.running
    /\ console' = AdvanceTime(console)
    /\ console' # console
    /\ last' = NoLast
    /\ UNCHANGED <<event_queue, hw, game, twin, others>>

\* A button thread whose state test succeeds during a game: it reaches the
\* lamp call of its pause branch
ButtonToggleGamePauseLive(c) ==
    IF c.state = "GAME" /\ c.current_game # NoGame THEN TLYellowOn(c) ELSE c

\* GameControlButton._toggle_game_pause and _return_to_main_menu, called on
\* the monitor thread: both test main_console.state == "GAME", a GameState
\* member against a str, which is never equal, so neither touches the console.
ButtonToggleGamePause(c) == c
ButtonReturnToMainMenu(c) == c

\* _handle_short_press on the monitor thread
ButtonShortPress ==
    /\ console.running /\ console.power_button
    /\ Len(event_queue) < MaxQueue
    /\ event_queue' = Append(event_queue, "toggle_pause")
    /\ console' = ButtonToggleGamePause(console)
    /\ UNCHANGED <<last, hw, game, twin, others>>

\* _handle_long_press on the monitor thread
ButtonLongPress ==
    /\ console.running /\ console.power_button
    /\ Len(event_queue) < MaxQueue
    /\ event_queue' = Append(event_queue, "return_to_menu")
    /\ console' = ButtonReturnToMainMenu(console)
    /\ UNCHANGED <<last, hw, game, twin, others>>

Next == Tick \/ ClockAdvance \/ ButtonShortPress \/ ButtonLongPress

Spec == Init /\ [][Next]_vars

----------------------------------------------------------------------------
(* EnhancedSnakeGame (games/game1.py).                                      *)
(* Time is counted in ticks of 1/24 s, which tells the three move intervals *)
(* 1/15, 1/12 and 1/8 s apart. A timestamp is the clock reading it was      *)
(* taken at; reading 0 is the epoch.                                        *)

GridW == 3          \* width // block_size of the instance explored
GridH == 2          \* height // block_size of the instance explored
MaxStep == 3        \* largest gap between two update() calls, in ticks
MaxClock == 9       \* ticks of play explored
MaxCalls == 2       \* update() calls made on the pair of instances

TicksPerSecond == 24
\* time.time() at construction: any reading later than the longest interval
\* the game measures from the epoch behaves the same
SnakeStart == 15 * TicksPerSecond

base_speed == 8
speed_boost == 15
combo_window == 2 * TicksPerSecond
FoodLifetime == 15 * TicksPerSecond
LevelEvery == 10

Cells == (0..(GridW - 1)) \X (0..(GridH - 1))
Centre == << GridW \div 2, GridH \div 2 >>

PowerupNames == {"invincible", "speed_boost", "score_multiplier", "wall_phase"}
PowerupDuration(name) ==
    CASE name = "invincible" -> 5 * TicksPerSecond
      [] name = "speed_boost" -> 3 * TicksPerSecond
      [] name = "score_multiplier" -> 10 * TicksPerSecond
      [] name = "wall_phase" -> 8 * TicksPerSecond

SpecialTypes == {"golden", "speed", "multi", "bonus", "phase"}

\* generate_food: the attributes a food of each type is given
FoodPoints(type) ==
    CASE type = "golden" -> 5 [] type = "speed" -> 3 [] type = "multi" -> 2
      [] type = "bonus" -> 10 [] type = "phase" -> 4 [] OTHER -> 1
FoodGrowth(type) == IF type = "golden" THEN 2 ELSE 1
FoodPowerup(type) ==
    CASE type = "speed" -> "speed_boost" [] type = "multi" -> "score_multiplier"
      [] type = "bonus" -> "invincible" [] type = "phase" -> "wall_phase"
      [] OTHER -> "none"

\* The controller_input argument: given is FALSE for None or an empty dict,
\* which update() skips with "if controller_input:"
NoInput ==
    [ given |-> FALSE, up |-> FALSE, down |-> FALSE, left |-> FALSE,
      right |-> FALSE, a |-> FALSE, start |-> FALSE ]
\* The inputs tried: nothing, or one button held (a direction, A or Start)
SnakeInputs ==
    {NoInput} \cup
    { i \in [given : {TRUE}, up : BOOLEAN, down : BOOLEAN, left : BOOLEAN,
             right : BOOLEAN, a : BOOLEAN, start : BOOLEAN] :
        Cardinality({ d \in {"up", "down", "left", "right", "a", "start"} :
                        i[d] }) <= 1 }

InSeq(x, seq) == \E k \in 1..Len(seq) : seq[k] = x
FoodAt(pos, foods) == \E k \in 1..Len(foods) : foods[k].pos = pos
IsFree(g, pos) == ~InSeq(pos, g.snake) /\ ~FoodAt(pos, g.foods)

\* generate_food: pos is the cell the random draw settles on; ok records that
\* the cell was free, as the loop draws again until it is
GenerateFood(g, type, pos, now) ==
    [g EXCEPT !.foods = Append(@, [pos |-> pos, type |-> type,
                                   spawn_time |-> now]),
              !.ok = @ /\ IsFree(g, pos)]

\* reset_game
ResetGame(g, now, rn) ==
    LET g1 == [g EXCEPT !.snake = << Centre >>,
                        !.direction = << 1, 0 >>,
                        !.foods = << >>]
        g2 == GenerateFood(g1, "normal", rn, now)
    IN [g2 EXCEPT !.drew_normal = TRUE,
                  !.special_food_timer = 0,
                  !.special_food_interval = 10 * TicksPerSecond,
                  !.score = 0,
                  !.level = 1,
                  !.game_over = FALSE,
                  !.paused = FALSE,
                  !.boosting = FALSE,
                  !.score_multiplier = 1,
                  !.total_eaten = 0,
                  !.combo_count = 0,
                  !.powerups = [n \in PowerupNames |->
                                   [active |-> FALSE, timer |-> 0]],
                  !.last_move_time = now]

\* __init__. current_speed2 is twice current_speed, which takes half-integer
\* values; ok, drew_normal and drew_special describe the latest call only.
NewSnake(now, rn) ==
    ResetGame([ snake |-> << >>, direction |-> << 1, 0 >>, foods |-> << >>,
                special_food_timer |-> 0,
                special_food_interval |-> 10 * TicksPerSecond,
                score |-> 0, level |-> 1, game_over |-> FALSE,
                paused |-> FALSE, boosting |-> FALSE,
                score_multiplier |-> 1, total_eaten |-> 0,
                combo_count |-> 0, last_eat_time |-> 0,
                powerups |-> [n \in PowerupNames |->
                                 [active |-> FALSE, timer |-> 0]],
                last_move_time |-> 0,
                base_speed |-> base_speed,
                current_speed2 |-> 2 * base_speed,
                has_last_update |-> FALSE, last_update_time |-> 0,
                ok |-> TRUE, drew_normal |-> FALSE, drew_special |-> FALSE ],
              now, rn)

\* update_special_foods
UpdateSpecialFoods(g, now, rs, st) ==
    LET g1 == IF now - g.special_food_timer >= g.special_food_interval
              THEN [GenerateFood(g, st, rs, now) EXCEPT
                       !.drew_special = TRUE,
                       !.special_food_timer = now,
                       !.special_food_interval =
                           Max(5 * TicksPerSecond,
                               10 * TicksPerSecond
                                 - (g.level * TicksPerSecond) \div 2)]
              ELSE g
    IN [g1 EXCEPT !.foods = SelectSeq(@, LAMBDA f :
                     f.type = "normal" \/ now - f.spawn_time < FoodLifetime)]

\* update_powerups
UpdatePowerups(g, delta_time) ==
    LET expires(n) == g.powerups[n].active
                      /\ g.powerups[n].timer - delta_time <= 0
    IN [g EXCEPT !.powerups = [n \in PowerupNames |->
                     IF g.powerups[n].active
                     THEN [active |-> ~expires(n),
                           timer |-> g.powerups[n].timer - delta_time]
                     ELSE g.powerups[n]],
                 !.score_multiplier =
                     IF expires("score_multiplier") THEN 1 ELSE @,
                 !.current_speed2 =
                     IF expires("speed_boost") THEN 2 * g.base_speed ELSE @]

\* activate_powerup
ActivatePowerup(g, name) ==
    IF name \notin PowerupNames THEN g
    ELSE [g EXCEPT !.powerups[name] =
                       [active |-> TRUE, timer |-> PowerupDuration(name)],
                   !.score_multiplier =
                       IF name = "score_multiplier" THEN 3 ELSE @,
                   !.current_speed2 =
                       IF name = "speed_boost" THEN 3 * g.base_speed ELSE @]

\* update(), the part that turns the snake: the first of the pressed
\* directions that is not the reverse of the current one
NewDirection(dir, inp) ==
    IF inp.up /\ dir # << 0, 1 >> THEN << 0, -1 >>
    ELSE IF inp.down /\ dir # << 0, -1 >> THEN << 0, 1 >>
    ELSE IF inp.left /\ dir # << 1, 0 >> THEN << -1, 0 >>
    ELSE IF inp.right /\ dir # << -1, 0 >> THEN << 1, 0 >>
    ELSE dir

\* update(), from "add the new head" on: g already has last_move_time set
MoveTo(g, new_head, now, rn) ==
    LET g1 == [g EXCEPT !.snake = << new_head >> \o @]
        hit == { k \in 1..Len(g1.foods) : g1.foods[k].pos = new_head }
    IN IF hit = {}
       THEN [g1 EXCEPT !.snake = SubSeq(@, 1, Len(@) - 1)]
       ELSE
         LET k == CHOOSE i \in hit : \A j \in hit : i <= j
             food == g1.foods[k]
             combo == IF now - g1.last_eat_time < combo_window
                      THEN g1.combo_count + 1 ELSE 1
             \* int(base_points * (1 + combo * 0.5) * score_multiplier)
             total_points == (FoodPoints(food.type) * (2 + combo)
                                * g1.score_multiplier) \div 2
             g2 == [g1 EXCEPT
                      !.foods = [i \in 1..(Len(@) - 1) |->
                                    IF i < k THEN @[i] ELSE @[i + 1]],
                      !.combo_count = combo,
                      !.last_eat_time = now,
                      !.score = @ + total_points,
                      !.snake = IF FoodGrowth(food.type) = 2
                                THEN Append(@, @[Len(@)]) ELSE @]
             g3 == ActivatePowerup(g2, FoodPowerup(food.type))
             g4 == IF food.type = "normal"
                   THEN [GenerateFood(g3, "normal", rn, now)
                            EXCEPT !.drew_normal = TRUE]
                   ELSE g3
             g5 == [g4 EXCEPT !.total_eaten = @ + 1]
         IN IF g5.total_eaten % LevelEvery = 0
            THEN [g5 EXCEPT !.level = @ + 1,
                            !.base_speed = @ + 1,
                            !.current_speed2 =
                                IF g5.powerups["speed_boost"].active THEN @
                                ELSE 2 * (g5.base_speed + 1)]
            ELSE g5

\* update(controller_input) called at clock reading now. rn, rs and st are
\* the random draws: the cell of a new normal food, the cell and the type of
\* a new special food. Gives the game afterwards and the keys of the status
\* dict returned.
SnakeUpdate(g0, inp, now, rn, rs, st) ==
    LET g == [g0 EXCEPT !.ok = TRUE, !.drew_normal = FALSE,
                        !.drew_special = FALSE]
        start_pressed == inp.given /\ inp.start
    IN
    IF g.game_over \/ g.paused
    THEN [ g |-> IF ~start_pressed THEN g
                 ELSE IF g.game_over THEN ResetGame(g, now, rn)
                 ELSE [g EXCEPT !.paused = FALSE],
           keys |-> {"game_over", "score", "paused"} ]
    ELSE
    LET delta_time == IF g.has_last_update THEN now - g.last_update_time ELSE 0
        g1 == [g EXCEPT !.has_last_update = TRUE, !.last_update_time = now]
        g2 == IF ~inp.given THEN g1
              ELSE [g1 EXCEPT !.direction = NewDirection(@, inp),
                              !.boosting = inp.a]
        move_speed2 == IF g2.boosting THEN 2 * speed_boost
                       ELSE g2.current_speed2
        head == g2.snake[1]
        raw == << head[1] + g2.direction[1], head[2] + g2.direction[2] >>
        new_head == IF g2.powerups["wall_phase"].active
                    THEN << raw[1] % GridW, raw[2] % GridH >> ELSE raw
        g3 == [g2 EXCEPT !.last_move_time = now]
    IN
    IF start_pressed
    THEN [ g |-> [g2 EXCEPT !.paused = ~@],
           keys |-> {"game_over", "score", "paused"} ]
    ELSE IF (now - g2.last_move_time) * move_speed2 < 2 * TicksPerSecond
    THEN [ g |-> UpdatePowerups(UpdateSpecialFoods(g2, now, rs, st),
                                delta_time),
           keys |-> {"game_over", "score"} ]
    ELSE IF new_head \notin Cells
    THEN [ g |-> [g3 EXCEPT !.game_over = TRUE],
           keys |-> {"game_over", "score"} ]
    ELSE IF InSeq(new_head, g3.snake) /\ ~g3.powerups["invincible"].active
    THEN [ g |-> [g3 EXCEPT !.game_over = TRUE],
           keys |-> {"game_over", "score"} ]
    ELSE
    LET g4 == MoveTo(g3, new_head, now, rn)
        g5 == IF \E k \in 1..Len(g4.foods) : g4.foods[k].type = "normal"
              THEN g4
              ELSE [GenerateFood(g4, "normal", rn, now)
                       EXCEPT !.drew_normal = TRUE]
    IN [ g |-> UpdatePowerups(UpdateSpecialFoods(g5, now, rs, st), delta_time),
         keys |-> {"game_over", "score"} ]

----------------------------------------------------------------------------
(* One snake instance: SpecSnake.                                           *)

GameIdle == [ phase |-> "idle" ]

InitSnake ==
    /\ \E rn \in Cells \ {Centre} :
          game = [ op |-> "init", now |-> SnakeStart,
                   g |-> NewSnake(SnakeStart, rn), keys |-> {} ]
    /\ console = NewConsole([p \in Peripherals |-> FALSE])
    /\ event_queue = << >>
    /\ last = NoLast
    /\ hw = HwIdle
    /\ twin = GameIdle
    /\ OthersIdle

\* The cells and types a call can draw: only the draws the call makes are
\* explored
DrawCells(used) == IF used THEN Cells ELSE {Centre}
DrawTypes(used) == IF used THEN SpecialTypes ELSE {"golden"}

\* The gaps between two update() calls that are explored: a frame too short
\* for a move at the base speed, and one long enough
FrameGaps == (MaxStep - 1)..MaxStep

\* The console, or a test, calling update() one frame after the last call
SnakeUpdateCall ==
    \E inp \in SnakeInputs, dt \in FrameGaps :
       LET now == game.now + dt
           dry == SnakeUpdate(game.g, inp, now, Centre, Centre, "golden").g
       IN /\ now <= SnakeStart + MaxClock
          /\ \E rn \in DrawCells(dry.drew_normal),
                rs \in DrawCells(dry.drew_special),
                st \in DrawTypes(dry.drew_special) :
                LET r == SnakeUpdate(game.g, inp, now, rn, rs, st) IN
                /\ r.g.ok
                /\ game' = [ op |-> "update", now |-> now,
                             g |-> r.g, keys |-> r.keys ]
          /\ UNCHANGED <<console, event_queue, last, hw, twin, others>>

\* reset_game() called on the instance
SnakeResetCall ==
    /\ game.op # "reset"
    /\ game.g.game_over
    /\ \E rn \in Cells :
          LET g == ResetGame([game.g EXCEPT !.ok = TRUE,
                                            !.drew_normal = FALSE,
                                            !.drew_special = FALSE],
                             game.now, rn)
          IN /\ g.ok
             /\ game' = [ op |-> "reset", now |-> game.now,
                          g |-> g, keys |-> {} ]
    /\ UNCHANGED <<console, event_queue, last, hw, twin, others>>

NextSnake == SnakeUpdateCall \/ SnakeResetCall

SpecSnake == InitSnake /\ [][NextSnake]_vars

----------------------------------------------------------------------------
(* Two snake instances fed the same inputs and the same random draws, each  *)
(* on its own wall clock: SpecTwin.                                         *)

InitTwin ==
    /\ \E rn \in Cells \ {Centre} :
          twin = [ phase |-> "play", calls |-> 0,
                   nowA |-> SnakeStart, nowB |-> SnakeStart,
                   a |-> NewSnake(SnakeStart, rn),
                   b |-> NewSnake(SnakeStart, rn) ]
    /\ console = NewConsole([p \in Peripherals |-> FALSE])
    /\ event_queue = << >>
    /\ last = NoLast
    /\ hw = HwIdle
    /\ game = GameIdle
    /\ OthersIdle

\* The same update(controller_input) call made on both instances, dtA and
\* dtB after each one's previous call
TwinUpdateCall ==
    \E inp \in SnakeInputs, dtA \in FrameGaps, dtB \in FrameGaps :
       LET nowA == twin.nowA + dtA
           nowB == twin.nowB + dtB
           dryA == SnakeUpdate(twin.a, inp, nowA, Centre, Centre, "golden").g
           dryB == SnakeUpdate(twin.b, inp, nowB, Centre, Centre, "golden").g
       IN /\ twin.calls < MaxCalls
          /\ nowA <= SnakeStart + MaxClock
          /\ nowB <= SnakeStart + MaxClock
          /\ \E rn \in DrawCells(dryA.drew_normal \/ dryB.drew_normal),
                rs \in DrawCells(dryA.drew_special \/ dryB.drew_special),
                st \in DrawTypes(dryA.drew_special \/ dryB.drew_special) :
                LET ra == SnakeUpdate(twin.a, inp, nowA, rn, rs, st)
                    rb == SnakeUpdate(twin.b, inp, nowB, rn, rs, st)
                IN /\ ra.g.ok
                   /\ rb.g.ok
                   /\ twin' = [ phase |-> "play", calls |-> twin.calls + 1,
                                nowA |-> nowA, nowB |-> nowB,
                                a |-> ra.g, b |-> rb.g ]
          /\ UNCHANGED <<console, event_queue, last, hw, game, others>>

NextTwin == TwinUpdateCall

SpecTwin == InitTwin /\ [][NextTwin]_vars

----------------------------------------------------------------------------
(* SystemConfig._merge_config: SpecMerge.                                   *)
(* A dict is a function from the keys that may occur at its level to the    *)
(* value under the key; Absent marks a key the dict does not have.          *)

Absent == [ kind |-> "absent" ]
Leaf(v) == [ kind |-> "leaf", v |-> v ]
Dict(d) == [ kind |-> "dict", d |-> d ]

\* Two option groups of default_config, with one option each, and a key
\* that default_config does not have at either level
TopKeys == {"display", "debug", "plugin"}
InnerKeys == {"fps", "show_fps", "theme"}

default_config ==
    [ k \in TopKeys |->
        CASE k = "display" ->
               Dict([ j \in InnerKeys |->
                        IF j = "fps" THEN Leaf("default") ELSE Absent ])
          [] k = "debug" ->
               Dict([ j \in InnerKeys |->
                        IF j = "show_fps" THEN Leaf("default") ELSE Absent ])
          [] OTHER -> Absent ]

\* What json.load can give for config.json: under each top-level key
\* nothing, a plain value, or a dict of plain values
UserGroups == [InnerKeys -> {Absent, Leaf("user")}]
UserConfigs ==
    [TopKeys -> {Absent, Leaf("user")} \cup { Dict(d) : d \in UserGroups }]

\* _merge_config(default, user)
RECURSIVE MergeConfig(_, _)
MergeConfig(default, user) ==
    [ key \in DOMAIN default |->
        IF user[key].kind = "absent" THEN default[key]
        ELSE IF default[key].kind = "dict" /\ user[key].kind = "dict"
        THEN Dict(MergeConfig(default[key].d, user[key].d))
        ELSE user[key] ]

InitMerge ==
    /\ \E user \in UserConfigs : config = [ phase |-> "read", user |-> user ]
    /\ console = NewConsole([p \in Peripherals |-> FALSE])
    /\ event_queue = << >>
    /\ last = NoLast
    /\ hw = HwIdle
    /\ game = GameIdle
    /\ twin = GameIdle
    /\ buzzer_control = Idle
    /\ threads = Idle
    /\ DevicesIdle
    /\ session = Idle

\* load_config, once config.json has been read
LoadConfig ==
    /\ config.phase = "read"
    /\ config' = [ phase |-> "merged", user |-> config.user,
                   result |-> MergeConfig(default_config, config.user) ]
    /\ UNCHANGED <<console, event_queue, last, hw, game, twin,
                   buzzer_control, threads, devices, session>>

NextMerge == LoadConfig

SpecMerge == InitMerge /\ [][NextMerge]_vars

----------------------------------------------------------------------------
(* BuzzerControl and the games that pace their own sound: SpecBuzzer.       *)
(* SpecBuzzer starts from the object that lines 20-31 of __init__ and       *)
(* _start_worker set up. As written __init__ raises UnboundLocalError at    *)
(* line 34 (GPIO_AVAILABLE is assigned at line 41 without a global          *)
(* statement), so the console itself never holds such an object; the        *)
(* console specification models that by buzzer = None.                      *)
(* Two threads act: the worker (_worker_loop) and the caller, which is the  *)
(* main loop inside a game's update() or another client of the class.       *)

\* Bounds: tasks ever enqueued, and notes of a melody
MaxTasks == 5
MaxNotes == 2

\* len(frequencies) in TetrisLikeGame.level_up, len(victory_notes) in
\* SimpleMazeGame.update
LevelUpTones == 4
VictoryNotes == 5

NoTask == [ id |-> 0, type |-> "none" ]
WorkerWaiting == [ pc |-> "wait", task |-> NoTask, n |-> 0,
                   stepped |-> FALSE, observed |-> FALSE ]
CallerIdle == [ pc |-> "idle", op |-> "none", i |-> 0 ]

\* music_queue.put_nowait(task): the tasks are numbered as they are enqueued
PutNowait(b, type) ==
    [b EXCEPT !.music_queue = Append(@, [ id |-> b.next_id + 1, type |-> type ]),
              !.next_id = @ + 1]

\* play_tone, play_melody
PlayRequest(b, type) == IF ~b.enabled THEN b ELSE PutNowait(b, type)

\* The mutant of QueueGet: the newest task first
QueueGetNewest(q) ==
    [ task |-> q[Len(q)], rest |-> SubSeq(q, 1, Len(q) - 1) ]

\* music_queue.get: queue.Queue is first in, first out
QueueGet(q) == [ task |-> Head(q), rest |-> Tail(q) ]

\* The mutant of MelodyStopRequested: the melody loop never looks at the flag
MelodyStopIgnored(b) == FALSE

\* 'if self.stop_current.is_set(): break' of _play_melody_internal
MelodyStopRequested(b) == b.stop_current

InitBuzzerControl ==
    /\ \E gpio \in BOOLEAN :
          buzzer_control =
             [ phase |-> "live", gpio |-> gpio, enabled |-> TRUE,
               running |-> TRUE, is_playing |-> FALSE, stop_current |-> FALSE,
               music_queue |-> << >>, next_id |-> 0,
               worker |-> WorkerWaiting, caller |-> CallerIdle,
               played |-> << >>, playing |-> {}, stopped_upto |-> 0 ]
    /\ console = NewConsole([p \in Peripherals |-> FALSE])
    /\ event_queue = << >>
    /\ last = NoLast
    /\ hw = HwIdle
    /\ game = GameIdle
    /\ twin = GameIdle
    /\ config = Idle
    /\ threads = Idle
    /\ DevicesIdle
    /\ session = Idle

BuzzerStep(b) ==
    /\ buzzer_control' = b
    /\ UNCHANGED <<console, event_queue, last, hw, game, twin, config, threads,
                   devices, session>>

\* _worker_loop: music_queue.get returns a task, or None and the loop breaks
WorkerGet ==
    LET b == buzzer_control
        got == QueueGet(b.music_queue)
    IN /\ b.worker.pc = "wait"
       /\ b.music_queue # << >>
       /\ BuzzerStep([b EXCEPT !.music_queue = got.rest,
                               !.worker = [@ EXCEPT
                                  !.pc = IF got.task.type = "none"
                                         THEN "exited" ELSE "got",
                                  !.task = got.task]])

\* _worker_loop: 'while self.running' is false
WorkerExit ==
    LET b == buzzer_control
    IN /\ b.worker.pc = "wait"
       /\ ~b.running
       /\ BuzzerStep([b EXCEPT !.worker.pc = "exited"])

\* _worker_loop: is_playing = True, stop_current.clear(), and the dispatch on
\* the task's type up to the first read of the flag or the first tone
WorkerBegin ==
    LET b == buzzer_control
        w == b.worker
    IN /\ w.pc = "got"
       /\ BuzzerStep([b EXCEPT
             !.is_playing = TRUE,
             !.stop_current = FALSE,
             !.played = Append(@, w.task.id),
             !.playing = @ \cup {w.task.id},
             !.worker = [w EXCEPT
                !.pc = IF w.task.type = "tone" THEN "note" ELSE "check",
                !.n = 1,
                !.stepped = b.enabled /\ b.gpio,
                !.observed = FALSE]])

\* _play_melody_internal: the head of the loop over the notes
MelodyCheck ==
    LET b == buzzer_control
        w == b.worker
    IN /\ w.pc = "check"
       /\ BuzzerStep(IF MelodyStopRequested(b)
                     THEN [b EXCEPT !.worker = [w EXCEPT !.pc = "finish",
                                                         !.observed = TRUE]]
                     ELSE [b EXCEPT !.worker = [w EXCEPT
                                        !.pc = "note",
                                        !.stepped = b.enabled /\ b.gpio]])

\* After a tone: back to the melody loop, or the end of the task
AfterTone(w) ==
    IF w.task.type = "melody" /\ w.n < MaxNotes
    THEN [w EXCEPT !.pc = "check", !.n = @ + 1]
    ELSE [w EXCEPT !.pc = "finish"]

\* _play_tone_internal: the duration has elapsed
ToneEnd ==
    LET b == buzzer_control
    IN /\ b.worker.pc = "note"
       /\ BuzzerStep([b EXCEPT !.worker = AfterTone(@)])

\* _play_tone_internal with the PWM: the 50 ms loop reads the flag as set
ToneStopped ==
    LET b == buzzer_control
    IN /\ b.worker.pc = "note"
       /\ b.worker.stepped
       /\ b.stop_current
       /\ BuzzerStep([b EXCEPT !.worker = AfterTone([@ EXCEPT !.observed = TRUE])])

\* _worker_loop: is_playing = False, task_done()
WorkerFinish ==
    LET b == buzzer_control
        w == b.worker
    IN /\ w.pc = "finish"
       /\ BuzzerStep([b EXCEPT !.is_playing = FALSE,
                               !.playing = @ \ {w.task.id},
                               !.worker = WorkerWaiting])

\* A client calls play_tone or play_melody
PlayCall ==
    LET b == buzzer_control
    IN /\ b.caller.pc = "idle"
       /\ b.enabled
       /\ b.next_id < MaxTasks
       /\ \E type \in {"tone", "melody"} : BuzzerStep(PlayRequest(b, type))

\* stop_all up to the loop that empties the queue
StopAllBegin(b, op) ==
    [b EXCEPT !.stop_current = TRUE,
              !.caller = [ pc |-> "drain", op |-> op, i |-> 0 ]]

\* A client calls stop_all
StopAllCall ==
    LET b == buzzer_control
    IN /\ b.caller.pc = "idle"
       /\ BuzzerStep(StopAllBegin(b, "stop_all"))

\* A client calls set_enabled
SetEnabledCall ==
    LET b == buzzer_control
    IN /\ b.caller.pc = "idle"
       /\ \E enabled \in BOOLEAN :
             /\ enabled # b.enabled
             /\ BuzzerStep(IF enabled THEN [b EXCEPT !.enabled = TRUE]
                           ELSE StopAllBegin([b EXCEPT !.enabled = FALSE],
                                             "set_enabled"))

\* A client calls cleanup
BuzzerCleanupCall ==
    LET b == buzzer_control
    IN /\ b.caller.pc = "idle"
       /\ b.running
       /\ BuzzerStep(StopAllBegin([b EXCEPT !.running = FALSE], "cleanup"))

\* stop_all: one turn of 'while not self.music_queue.empty()'; at its end
\* stop_all returns (stopped_upto records the newest task enqueued before
\* it) and cleanup puts the None that ends the worker
StopAllDrain ==
    LET b == buzzer_control
    IN /\ b.caller.pc = "drain"
       /\ BuzzerStep(
            IF b.music_queue # << >>
            THEN [b EXCEPT !.music_queue = Tail(@)]
            ELSE IF b.caller.op = "cleanup"
            THEN [b EXCEPT !.music_queue = <<NoTask>>,
                           !.stopped_upto = b.next_id,
                           !.caller = [CallerIdle EXCEPT !.pc = "closed"]]
            ELSE [b EXCEPT !.stopped_upto = b.next_id,
                           !.caller = CallerIdle])

\* The number of tones a game's update() requests one after the other
PacedTones(op) == IF op = "level_up" THEN LevelUpTones ELSE VictoryNotes

\* update() of the Tetris game reaches level_up, or update() of the maze game
\* reaches the exit, with a buzzer
PacedSoundBegin ==
    LET b == buzzer_control
    IN /\ b.caller.pc = "idle"
       /\ \E op \in {"level_up", "maze_exit"} :
             /\ b.next_id + PacedTones(op) <= MaxTasks
             /\ BuzzerStep([b EXCEPT !.caller = [ pc |-> "tone", op |-> op,
                                                  i |-> 0 ]])

\* self.buzzer.play_tone(frequency=..., duration=...) inside the loop
PacedSoundTone ==
    LET b == buzzer_control
    IN /\ b.caller.pc = "tone"
       /\ BuzzerStep([PlayRequest(b, "tone") EXCEPT !.caller.pc = "sleep"])

\* time.sleep(0.05) of level_up, time.sleep(0.1) of the maze exit
PacedSoundSleep ==
    LET b == buzzer_control
        c == b.caller
    IN /\ c.pc = "sleep"
       /\ BuzzerStep([b EXCEPT !.caller =
                        IF c.i + 1 < PacedTones(c.op)
                        THEN [c EXCEPT !.pc = "tone", !.i = @ + 1]
                        ELSE CallerIdle])

NextBuzzer ==
    \/ WorkerGet
    \/ WorkerExit
    \/ WorkerBegin
    \/ MelodyCheck
    \/ ToneEnd
    \/ ToneStopped
    \/ WorkerFinish
    \/ PlayCall
    \/ StopAllCall
    \/ SetEnabledCall
    \/ BuzzerCleanupCall
    \/ StopAllDrain
    \/ PacedSoundBegin
    \/ PacedSoundTone
    \/ PacedSoundSleep

SpecBuzzer == InitBuzzerControl /\ [][NextBuzzer]_vars

----------------------------------------------------------------------------
(* The threads of the console and the controller driver: SpecThreads.       *)
(* The main loop calls XboxController.get_input; the system monitor thread, *)
(* started when debug.hardware_monitor is set, calls check_connection; the  *)
(* button monitor thread puts events in the button's queue.                 *)

\* The positions of a thread inside the controller driver
InDriver == {"check", "init", "count", "read"}

InitThreads ==
    /\ \E hardware_monitor \in BOOLEAN, plugged \in BOOLEAN :
          threads = [ phase |-> "live",
                      hardware_monitor |-> hardware_monitor,
                      plugged |-> plugged,
                      is_connected |-> plugged,
                      joystick_init |-> TRUE,
                      main |-> "loop",
                      monitor |-> "sleep",
                      main_raised |-> FALSE ]
    /\ console = NewConsole([p \in Peripherals |-> FALSE])
    /\ event_queue = << >>
    /\ last = NoLast
    /\ hw = HwIdle
    /\ game = GameIdle
    /\ twin = GameIdle
    /\ config = Idle
    /\ buzzer_control = Idle
    /\ DevicesIdle
    /\ session = Idle

ThreadStep(t) ==
    /\ threads' = t
    /\ UNCHANGED <<console, event_queue, last, hw, game, twin,
                   config, buzzer_control, devices, session>>

\* check_connection from get_count on: initialize_controller when a joystick
\* is there. get_count raises when the joystick module is not initialised.
CheckConnectionCount(t) ==
    IF ~t.joystick_init THEN [ raised |-> TRUE, is_connected |-> t.is_connected ]
    ELSE [ raised |-> FALSE, is_connected |-> t.plugged ]

\* The main loop calls controller.get_input()
MainGetInput ==
    /\ threads.main = "loop"
    /\ ~threads.main_raised
    /\ ThreadStep([threads EXCEPT !.main = IF threads.is_connected
                                           THEN "read" ELSE "check"])

\* check_connection: pygame.joystick.quit()
MainJoystickQuit ==
    /\ threads.main = "check"
    /\ ThreadStep([threads EXCEPT !.joystick_init = FALSE, !.main = "init"])

\* check_connection: pygame.joystick.init()
MainJoystickInit ==
    /\ threads.main = "init"
    /\ ThreadStep([threads EXCEPT !.joystick_init = TRUE, !.main = "count"])

\* check_connection: get_count and initialize_controller; an exception leaves
\* get_input, which has no try around the call
MainJoystickCount ==
    /\ threads.main = "count"
    /\ LET r == CheckConnectionCount(threads)
       IN ThreadStep([threads EXCEPT
             !.is_connected = r.is_connected,
             !.main_raised = r.raised,
             !.main = IF ~r.raised /\ r.is_connected THEN "read" ELSE "loop"])

\* get_input: the reads of the joystick, inside try/except
MainRead ==
    /\ threads.main = "read"
    /\ ThreadStep([threads EXCEPT
          !.is_connected = IF threads.joystick_init /\ threads.plugged
                           THEN @ ELSE FALSE,
          !.main = "loop"])

\* _system_monitor_loop: 'if self.controller and not
\* self.controller.is_connected: self.controller.check_connection()'
MonitorWake ==
    /\ threads.hardware_monitor
    /\ threads.monitor = "sleep"
    /\ ~threads.is_connected
    /\ ThreadStep([threads EXCEPT !.monitor = "check"])

MonitorJoystickQuit ==
    /\ threads.monitor = "check"
    /\ ThreadStep([threads EXCEPT !.joystick_init = FALSE, !.monitor = "init"])

MonitorJoystickInit ==
    /\ threads.monitor = "init"
    /\ ThreadStep([threads EXCEPT !.joystick_init = TRUE, !.monitor = "count"])

\* An exception is caught by the loop's except clause
MonitorJoystickCount ==
    /\ threads.monitor = "count"
    /\ LET r == CheckConnectionCount(threads)
       IN ThreadStep([threads EXCEPT !.is_connected = r.is_connected,
                                     !.monitor = "sleep"])

\* The controller is plugged in or pulled out
PlugToggle ==
    /\ threads.phase = "live"
    /\ ThreadStep([threads EXCEPT !.plugged = ~@])

\* The button thread: _handle_short_press, _handle_long_press
ButtonThreadPress ==
    /\ threads.phase = "live"
    /\ Len(event_queue) < MaxQueue
    /\ \E action \in {"toggle_pause", "return_to_menu"} :
          event_queue' = Append(event_queue, action)
    /\ UNCHANGED <<console, last, hw, game, twin, others>>

\* The main loop: get_pending_events
MainDrainEvents ==
    /\ threads.main = "loop"
    /\ event_queue # << >>
    /\ event_queue' = << >>
    /\ UNCHANGED <<console, last, hw, game, twin, others>>

NextThreads ==
    \/ MainGetInput
    \/ MainJoystickQuit
    \/ MainJoystickInit
    \/ MainJoystickCount
    \/ MainRead
    \/ MonitorWake
    \/ MonitorJoystickQuit
    \/ MonitorJoystickInit
    \/ MonitorJoystickCount
    \/ PlugToggle
    \/ ButtonThreadPress
    \/ MainDrainEvents

SpecThreads == InitThreads /\ [][NextThreads]_vars

----------------------------------------------------------------------------
(* TrafficLight: SpecLight. One step is one GPIO.output call.               *)

\* self.pins, in list order
LampOrder == << "red", "yellow", "green" >>
Lamps == {"red", "yellow", "green"}
LightMethods == {"red_on", "yellow_on", "green_on", "all_off", "cleanup"}

\* The colour a method passes to set_light, "none" for all_off and cleanup
LampOf(method) ==
    CASE method = "red_on" -> "red"
      [] method = "yellow_on" -> "yellow"
      [] method = "green_on" -> "green"
      [] OTHER -> "none"

\* The mutant of GpioOutput: a pin once HIGH stays HIGH
GpioOutputHighOnly(pins, lamp, level) ==
    [pins EXCEPT ![lamp] = @ \/ level]

\* GPIO.output(pin, GPIO.HIGH if state else GPIO.LOW)
GpioOutput(pins, lamp, level) == [pins EXCEPT ![lamp] = level]

\* set_light(color, state)
SetLight(pins, color, state) ==
    IF color \in Lamps THEN GpioOutput(pins, color, state) ELSE pins

Lit(pins) == { l \in Lamps : pins[l] }

\* __init__ and _setup: every pin an output at LOW
InitLight ==
    /\ light = [ phase |-> "live", pins |-> [ l \in Lamps |-> FALSE ],
                 method |-> "none", i |-> 0, returned |-> "none" ]
    /\ console = NewConsole([p \in Peripherals |-> FALSE])
    /\ event_queue = << >>
    /\ last = NoLast
    /\ hw = HwIdle
    /\ game = GameIdle
    /\ twin = GameIdle
    /\ config = Idle
    /\ buzzer_control = Idle
    /\ threads = Idle
    /\ session = Idle
    /\ button = Idle
    /\ keypad = Idle

LightStep(t) ==
    /\ light' = t
    /\ UNCHANGED <<console, event_queue, last, hw, game, twin,
                   config, buzzer_control, threads, button, keypad, session>>

\* A client calls one of the methods
LightCall ==
    /\ light.phase = "live"
    /\ light.method = "none"
    /\ \E method \in LightMethods :
          LightStep([light EXCEPT !.method = method, !.i = 0])

\* all_off: one turn of 'for pin in self.pins'
LightAllOffStep ==
    /\ light.phase = "live"
    /\ light.method # "none"
    /\ light.i < Len(LampOrder)
    /\ LightStep([light EXCEPT
          !.pins = GpioOutput(@, LampOrder[light.i + 1], FALSE),
          !.i = @ + 1])

\* After all_off: set_light(colour, True) in red_on, yellow_on and green_on;
\* the method returns
LightReturn ==
    /\ light.phase = "live"
    /\ light.method # "none"
    /\ light.i = Len(LampOrder)
    /\ LightStep([light EXCEPT
          !.pins = SetLight(@, LampOf(light.method), TRUE),
          !.method = "none",
          !.i = 0,
          !.returned = light.method])

NextLight ==
    \/ LightCall
    \/ LightAllOffStep
    \/ LightReturn

SpecLight == InitLight /\ [][NextLight]_vars

----------------------------------------------------------------------------
(* MatrixKeypad.get_key: SpecKeypad. Time is counted in hundredths of a     *)
(* second; last_key_press_time is kept as the time elapsed since it was     *)
(* taken, saturating at DEBOUNCE_DELAY.                                     *)

DEBOUNCE_DELAY == 5        \* 0.05 s

\* The order in which get_key_raw meets the keys: column by column, and in
\* a column row by row
ScanOrder == << "1", "4", "7", "*", "2", "5", "8", "0",
                "3", "6", "9", "#", "A", "B", "C", "D" >>

\* The keys that fingers press in the model, and the count at which the
\* per-hold history stops counting
PressableKeys == {"1", "4", "2"}
MaxHoldCount == 2

RECURSIVE FirstHeld(_, _)
FirstHeld(held, i) ==
    IF i > Len(ScanOrder) THEN "none"
    ELSE IF ScanOrder[i] \in held THEN ScanOrder[i]
    ELSE FirstHeld(held, i + 1)

\* get_key_raw: the first key of the scan that is down, else None
GetKeyRaw(held) == FirstHeld(held, 1)

\* The mutant of NewKey: every scan that sees a key reports it
NewKeyAlways(key, last_key) == TRUE

\* 'if key != self.last_key'
NewKey(key, last_key) == key # last_key

\* get_key: the fields of the object after the call, with the value returned
\* (ret) and what the call did (within: inside the debounce delay; scanned,
\* seen, prev_seen: the scan of this call and the scan before it)
GetKey(k, held) ==
    IF k.since_press < DEBOUNCE_DELAY
    THEN [k EXCEPT !.ret = "none", !.within = TRUE, !.scanned = FALSE]
    ELSE LET key == GetKeyRaw(held)
             k1 == [k EXCEPT !.within = FALSE, !.scanned = TRUE,
                             !.prev_seen = k.seen, !.seen = key]
         IN IF key # "none"
            THEN IF NewKey(key, k.last_key)
                 THEN [k1 EXCEPT !.since_press = 0, !.last_key = key,
                                 !.ret = key]
                 ELSE [k1 EXCEPT !.since_press = 0, !.ret = "none"]
            ELSE [k1 EXCEPT !.last_key = "none", !.ret = "none"]

Bump(n) == Min(n + 1, MaxHoldCount)

InitKeypad ==
    /\ keypad = [ phase |-> "live", last_key |-> "none",
                  since_press |-> DEBOUNCE_DELAY,
                  held |-> {},
                  hold |-> [ key \in PressableKeys |->
                               [ calls |-> 0, returned |-> 0 ] ],
                  ret |-> "none", within |-> FALSE, scanned |-> FALSE,
                  seen |-> "none", prev_seen |-> "none" ]
    /\ console = NewConsole([p \in Peripherals |-> FALSE])
    /\ event_queue = << >>
    /\ last = NoLast
    /\ hw = HwIdle
    /\ game = GameIdle
    /\ twin = GameIdle
    /\ config = Idle
    /\ buzzer_control = Idle
    /\ threads = Idle
    /\ session = Idle
    /\ light = Idle
    /\ button = Idle

KeypadStep(k) ==
    /\ keypad' = k
    /\ UNCHANGED <<console, event_queue, last, hw, game, twin,
                   config, buzzer_control, threads, light, button, session>>

\* A finger presses a key; the history of its hold starts
KeyDown ==
    /\ keypad.phase = "live"
    /\ \E key \in PressableKeys \ keypad.held :
          KeypadStep([keypad EXCEPT
             !.held = @ \cup {key},
             !.hold[key] = [ calls |-> 0, returned |-> 0 ]])

\* A finger lets a key go
KeyUp ==
    /\ keypad.phase = "live"
    /\ \E key \in keypad.held :
          KeypadStep([keypad EXCEPT
             !.held = @ \ {key},
             !.hold[key] = [ calls |-> 0, returned |-> 0 ]])

\* 0.01 s passes
KeypadClock ==
    /\ keypad.phase = "live"
    /\ keypad.since_press < DEBOUNCE_DELAY
    /\ KeypadStep([keypad EXCEPT !.since_press = @ + 1])

\* The main loop calls get_key
GetKeyCall ==
    /\ keypad.phase = "live"
    /\ LET k == GetKey(keypad, keypad.held)
       IN KeypadStep([k EXCEPT !.hold =
             [ key \in PressableKeys |->
                 IF key \in keypad.held
                 THEN [ calls |-> Bump(keypad.hold[key].calls),
                        returned |-> IF k.ret = key
                                     THEN Bump(keypad.hold[key].returned)
                                     ELSE keypad.hold[key].returned ]
                 ELSE keypad.hold[key] ]])

NextKeypad ==
    \/ KeyDown
    \/ KeyUp
    \/ KeypadClock
    \/ GetKeyCall

SpecKeypad == InitKeypad /\ [][NextKeypad]_vars

----------------------------------------------------------------------------
(* GameControlButton._monitor_button: SpecButton. Time is counted in        *)
(* hundredths of a second. last_press_time is kept as the time elapsed      *)
(* since it was taken and the length of a hold as the time the button has   *)
(* been down, both saturating at HOLD_DURATION. The thread runs as soon as  *)
(* a sleep of it ends.                                                      *)

HOLD_DURATION == 300       \* 3.0 s
SHORT_PRESS_MIN == 5       \* 0.05 s
DEBOUNCE_TIME == 2         \* 0.02 s, the sleep of the monitor loop
LongPressPoll == 10        \* 0.1 s, the sleep of the wait for the release

\* The count at which the per-press history stops counting events
MaxPressEvents == 2

\* The history of one physical press: how long it has been held (h), whether
\* it is over (done), whether the thread has since read the pin HIGH
\* (seen_high), and the events queued because of it
NoPress == [ h |-> 0, done |-> TRUE, seen_high |-> TRUE,
             toggles |-> 0, returns |-> 0 ]

CountEvent(n) == Min(n + 1, MaxPressEvents)

\* 'press_duration >= SHORT_PRESS_MIN and press_duration < HOLD_DURATION'
IsShortPress(duration) ==
    duration >= SHORT_PRESS_MIN /\ duration < HOLD_DURATION

\* _handle_button_release
HandleButtonRelease(b) ==
    IF ~b.was_pressed THEN b
    ELSE [b EXCEPT
            !.press.toggles = IF IsShortPress(b.since_press)
                              THEN CountEvent(@) ELSE @,
            !.was_pressed = FALSE,
            !.since_press = HOLD_DURATION]

\* _handle_button_press
HandleButtonPress(b) == [b EXCEPT !.was_pressed = TRUE, !.since_press = 0]

\* One turn of the loop of _monitor_button from GPIO.input on; after a long
\* press the thread stays in the inner loop that waits for the release
MonitorSample(b) ==
    LET low == b.level = "LOW"
        b1 == IF low /\ b.last_button_state = "HIGH" THEN HandleButtonPress(b)
              ELSE IF ~low /\ b.last_button_state = "LOW"
              THEN HandleButtonRelease(b)
              ELSE b
        b2 == IF ~low THEN [b1 EXCEPT !.press.seen_high = TRUE] ELSE b1
    IN IF low /\ b2.was_pressed /\ b2.since_press >= HOLD_DURATION
       THEN [b2 EXCEPT !.press.returns = CountEvent(@),
                       !.pc = "wait", !.nap = 0,
                       !.pending_state = b.level]
       ELSE [b2 EXCEPT !.last_button_state = b.level,
                       !.pc = "sleep", !.nap = DEBOUNCE_TIME]

\* 'while GPIO.input(POWER_BUTTON_PIN) == GPIO.LOW and self.running:
\* time.sleep(0.1)', and after it 'self.last_button_state = button_state'
\* with the state read before the wait
MonitorWait(b) ==
    IF b.level = "LOW"
    THEN [b EXCEPT !.nap = LongPressPoll]
    ELSE [b EXCEPT !.press.seen_high = TRUE,
                   !.last_button_state = b.pending_state,
                   !.pc = "sleep", !.nap = DEBOUNCE_TIME]

InitButton ==
    /\ button = [ phase |-> "live", level |-> "HIGH",
                  last_button_state |-> "HIGH", pending_state |-> "HIGH",
                  was_pressed |-> FALSE, since_press |-> HOLD_DURATION,
                  pc |-> "sleep", nap |-> DEBOUNCE_TIME,
                  press |-> NoPress ]
    /\ console = NewConsole([p \in Peripherals |-> FALSE])
    /\ event_queue = << >>
    /\ last = NoLast
    /\ hw = HwIdle
    /\ game = GameIdle
    /\ twin = GameIdle
    /\ config = Idle
    /\ buzzer_control = Idle
    /\ threads = Idle
    /\ session = Idle
    /\ light = Idle
    /\ keypad = Idle

ButtonStep(b) ==
    /\ button' = b
    /\ UNCHANGED <<console, event_queue, last, hw, game, twin,
                   config, buzzer_control, threads, light, keypad, session>>

\* The button goes down, once the thread has read the pin HIGH after the
\* press before
ButtonDown ==
    /\ button.phase = "live"
    /\ button.level = "HIGH"
    /\ button.press.seen_high
    /\ ButtonStep([button EXCEPT
          !.level = "LOW",
          !.press = [ h |-> 0, done |-> FALSE, seen_high |-> FALSE,
                      toggles |-> 0, returns |-> 0 ]])

\* The button comes up
ButtonUp ==
    /\ button.phase = "live"
    /\ button.level = "LOW"
    /\ ButtonStep([button EXCEPT !.level = "HIGH", !.press.done = TRUE])

\* 0.01 s passes while the thread sleeps
ButtonClock ==
    /\ button.phase = "live"
    /\ button.nap > 0
    /\ ButtonStep([button EXCEPT
          !.nap = @ - 1,
          !.since_press = Min(@ + 1, HOLD_DURATION),
          !.press.h = IF button.level = "LOW"
                      THEN Min(@ + 1, HOLD_DURATION) ELSE @])

\* The sleep of the monitor loop is over
MonitorSampleStep ==
    /\ button.phase = "live"
    /\ button.pc = "sleep"
    /\ button.nap = 0
    /\ ButtonStep(MonitorSample(button))

\* The sleep of the wait for the release is over
MonitorWaitStep ==
    /\ button.phase = "live"
    /\ button.pc = "wait"
    /\ button.nap = 0
    /\ ButtonStep(MonitorWait(button))

NextButton ==
    \/ ButtonDown
    \/ ButtonUp
    \/ ButtonClock
    \/ MonitorSampleStep
    \/ MonitorWaitStep

SpecButton == InitButton /\ [][NextButton]_vars

----------------------------------------------------------------------------
(* The button's event queue between the monitor thread and the main loop:   *)
(* SpecQueue. The events are numbered as the thread puts them; returned is  *)
(* the history of the events get_pending_events calls have taken.           *)

\* Bound: events the thread puts in one run
MaxPuts == 4

\* The mutant of EventsAppend: the newest event first
EventsPrepend(events, e) == <<e>> \o events

\* events.append(self.event_queue.get_nowait())
EventsAppend(events, e) == Append(events, e)

EventIds(events) == [ n \in 1..Len(events) |-> events[n].id ]

InitQueue ==
    /\ button = [ phase |-> "queue", next_id |-> 0, pc |-> "loop",
                  events |-> << >>, handled |-> << >>, returned |-> << >> ]
    /\ event_queue = << >>
    /\ console = NewConsole([p \in Peripherals |-> FALSE])
    /\ last = NoLast
    /\ hw = HwIdle
    /\ game = GameIdle
    /\ twin = GameIdle
    /\ config = Idle
    /\ buzzer_control = Idle
    /\ threads = Idle
    /\ session = Idle
    /\ light = Idle
    /\ keypad = Idle

QueueStep(b, q) ==
    /\ button' = b
    /\ event_queue' = q
    /\ UNCHANGED <<console, last, hw, game, twin,
                   config, buzzer_control, threads, light, keypad, session>>

\* _handle_short_press, _handle_long_press: self.event_queue.put(...)
QueuePut ==
    /\ button.phase = "queue"
    /\ button.next_id < MaxPuts
    /\ \E action \in {"toggle_pause", "return_to_menu"} :
          QueueStep([button EXCEPT !.next_id = @ + 1],
                    Append(event_queue,
                           [ id |-> button.next_id + 1, action |-> action ]))

\* _handle_power_button_events calls get_pending_events: events = []
GetPendingCall ==
    /\ button.phase = "queue"
    /\ button.pc = "loop"
    /\ QueueStep([button EXCEPT !.pc = "drain", !.events = << >>],
                 event_queue)

\* get_pending_events: one turn of 'while not self.event_queue.empty()', or
\* the return of the list when the queue is empty
GetPendingTurn ==
    /\ button.phase = "queue"
    /\ button.pc = "drain"
    /\ IF event_queue # << >>
       THEN LET got == QueueGet(event_queue)
            IN QueueStep([button EXCEPT
                            !.events = EventsAppend(@, got.task),
                            !.returned = Append(@, got.task.id)],
                         got.rest)
       ELSE QueueStep([button EXCEPT !.pc = "handle"], event_queue)

\* _handle_power_button_events: one turn of 'for event in events', or the
\* end of the loop
HandleEventTurn ==
    /\ button.phase = "queue"
    /\ button.pc = "handle"
    /\ IF button.events # << >>
       THEN QueueStep([button EXCEPT
                         !.handled = Append(@, Head(button.events).id),
                         !.events = Tail(@)],
                      event_queue)
       ELSE QueueStep([button EXCEPT !.pc = "loop"], event_queue)

NextQueue ==
    \/ QueuePut
    \/ GetPendingCall
    \/ GetPendingTurn
    \/ HandleEventTurn

SpecQueue == InitQueue /\ [][NextQueue]_vars

----------------------------------------------------------------------------
(* SpecStats: the session statistics and the game-over screen of the small  *)
(* display.  The variable session holds                                     *)
(*  spi               : spi_screen and spi_screen.device are set            *)
(*  state             : MENU, GAME_STARTING, GAME, GAME_PAUSED or GAME_OVER *)
(*                      (the instruction screen and the countdown are in    *)
(*                      Spec and touch no statistic)                        *)
(*  current_selection : index into games                                    *)
(*  games_played, total_score, best_scores : session_stats                  *)
(*  game_over_data    : the status kept at game over                        *)
(*  has_over_start    : hasattr(self, '_game_over_start_time')              *)
(*  shown             : what display_game_over last drew                    *)
(* and, as history, starts (constructors that returned), reported (the name *)
(* and score of every game over, in order), quits (games left through       *)
(* return-to-menu) and prev_best (best_scores.get(name) just before the     *)
(* last game over).                                                         *)

MaxSessionGames == 3    \* games started per session
MaxScore == 2           \* scores are 0..MaxScore
NumStatGames == 2       \* entries of games that are selected

Scores == 0 .. MaxScore
NoBest == 0 - 1         \* dict.get(name) returning None

\* games[i]["name"]: the names are pairwise different, as the class names are
GameName(i) == Games[i + 1]

\* What current_game.update() returns: game_over, and a score or none
Statuses ==
    { [game_over |-> g, has_score |-> TRUE, score |-> n] :
          g \in BOOLEAN, n \in Scores }
    \cup { [game_over |-> g, has_score |-> FALSE, score |-> 0] : g \in BOOLEAN }

NoStatus == [game_over |-> FALSE, has_score |-> FALSE, score |-> 0]

\* game_status.get("score", 0)
StatusScore(status) == IF status.has_score THEN status.score ELSE 0

\* session_stats["best_scores"].get(name)
BestGet(best_scores, name) ==
    IF name \in DOMAIN best_scores THEN best_scores[name] ELSE NoBest

\* A record of best scores that keeps the latest score
UpdateBestScoresLatest(best_scores, name, score) ==
    [n \in DOMAIN best_scores \cup {name} |->
        IF n = name THEN score ELSE best_scores[n]]

\* _handle_game: best_scores[name] = score for a new name, else the max
UpdateBestScores(best_scores, name, score) ==
    [n \in DOMAIN best_scores \cup {name} |->
        IF n # name THEN best_scores[n]
        ELSE IF name \notin DOMAIN best_scores THEN score
        ELSE Max(best_scores[name], score)]

NothingShown == [kind |-> "none", score |-> 0, high_score |-> NoBest]

\* display_game_over(score, high_score): the record line under the score
DisplayGameOver(score, high_score) ==
    IF high_score # NoBest
    THEN IF score > high_score
         THEN [kind |-> "new_record", score |-> score, high_score |-> NoBest]
         ELSE [kind |-> "best", score |-> score, high_score |-> high_score]
    ELSE [kind |-> "score_only", score |-> score, high_score |-> NoBest]

InitStats ==
    /\ \E spi \in BOOLEAN :
         session = [ phase |-> "stats",
                     spi |-> spi,
                     state |-> "MENU",
                     current_selection |-> 0,
                     games_played |-> 0,
                     total_score |-> 0,
                     best_scores |-> << >>,
                     game_over_data |-> NoStatus,
                     has_over_start |-> FALSE,
                     shown |-> NothingShown,
                     starts |-> 0,
                     reported |-> << >>,
                     quits |-> 0,
                     prev_best |-> NoBest ]
    /\ console = NewConsole([p \in Peripherals |-> FALSE])
    /\ event_queue = << >>
    /\ last = NoLast
    /\ hw = HwIdle
    /\ game = GameIdle
    /\ twin = GameIdle
    /\ config = Idle
    /\ buzzer_control = Idle
    /\ threads = Idle
    /\ DevicesIdle

StatsStep(t) ==
    /\ session' = t
    /\ UNCHANGED <<console, event_queue, last, hw, game, twin,
                   config, buzzer_control, threads, devices>>

\* _handle_menu_input: another entry of the menu is selected
StatsMenuSelect ==
    /\ session.phase = "stats"
    /\ session.state = "MENU"
    /\ \E i \in 0 .. NumStatGames - 1 :
         /\ i # session.current_selection
         /\ StatsStep([session EXCEPT !.current_selection = i])

\* _start_game_sequence, for games[current_selection]
StatsStartGameSequence ==
    /\ session.phase = "stats"
    /\ session.state = "MENU"
    /\ session.games_played < MaxSessionGames
    /\ StatsStep([session EXCEPT !.state = "GAME_STARTING"])

\* _actually_start_game, once the countdown is over
StatsActuallyStartGame ==
    /\ session.phase = "stats"
    /\ session.state = "GAME_STARTING"
    /\ \E ctor_ok \in BOOLEAN :
         IF ctor_ok
         THEN StatsStep([session EXCEPT !.state = "GAME",
                                        !.games_played = @ + 1,
                                        !.starts = @ + 1])
         ELSE StatsStep([session EXCEPT !.state = "MENU"])

\* _handle_game with the status that current_game.update() returned
StatsHandleGame ==
    /\ session.phase = "stats"
    /\ session.state = "GAME"
    /\ \E status \in Statuses :
         IF status.game_over
         THEN LET score == StatusScore(status)
                  game_name == GameName(session.current_selection)
              IN StatsStep([session EXCEPT
                     !.state = "GAME_OVER",
                     !.game_over_data = status,
                     !.total_score = @ + score,
                     !.best_scores = UpdateBestScores(@, game_name, score),
                     !.reported = Append(@, [name |-> game_name,
                                             score |-> score]),
                     !.prev_best = BestGet(session.best_scores, game_name)])
         ELSE StatsStep(session)

\* _handle_pause_toggle
StatsPauseToggle ==
    /\ session.phase = "stats"
    /\ session.state \in {"GAME", "GAME_PAUSED"}
    /\ StatsStep([session EXCEPT
                    !.state = IF @ = "GAME" THEN "GAME_PAUSED" ELSE "GAME"])

\* _handle_return_to_menu during a game
StatsReturnToMenu ==
    /\ session.phase = "stats"
    /\ session.state \in {"GAME", "GAME_PAUSED"}
    /\ StatsStep([session EXCEPT !.state = "MENU", !.quits = @ + 1])

\* _handle_game_over, first frame: the game-over screen is drawn
StatsGameOverFirst ==
    /\ session.phase = "stats"
    /\ session.state = "GAME_OVER"
    /\ ~session.has_over_start
    /\ StatsStep([session EXCEPT
          !.has_over_start = TRUE,
          !.shown = IF session.spi
                    THEN DisplayGameOver(
                             StatusScore(session.game_over_data),
                             BestGet(session.best_scores,
                                     GameName(session.current_selection)))
                    ELSE @])

\* _handle_game_over, the frame after 3 s
StatsGameOverEnd ==
    /\ session.phase = "stats"
    /\ session.state = "GAME_OVER"
    /\ session.has_over_start
    /\ StatsStep([session EXCEPT !.state = "MENU",
                                 !.has_over_start = FALSE])

NextStats ==
    \/ StatsMenuSelect
    \/ StatsStartGameSequence
    \/ StatsActuallyStartGame
    \/ StatsHandleGame
    \/ StatsPauseToggle
    \/ StatsReturnToMenu
    \/ StatsGameOverFirst
    \/ StatsGameOverEnd

SpecStats == InitStats /\ [][NextStats]_vars

----------------------------------------------------------------------------
(* Properties of the console state machine.                                 *)

\* C1 (as stated): in every reachable state, state = GAME implies that
\* current_game is an instance of the game_class of games[current_selection]
C1_GameHasInstanceAlways ==
    console.state = "GAME" =>
        /\ console.current_game # NoGame
        /\ console.current_game.cls = Games[console.current_selection + 1]

\* C1: while the main loop is running, state = GAME implies that current_game
\* is an instance of the game_class of games[current_selection]
C1_GameHasInstance ==
    (console.running /\ console.state = "GAME") =>
        /\ console.current_game # NoGame
        /\ console.current_game.cls = Games[console.current_selection + 1]

\* a game other than the first is running after the countdown
C1_Witness ==
    /\ console.running /\ console.state = "GAME"
    /\ last.disp = "GAME_STARTING" /\ last.ctor = "ok"
    /\ console.current_selection = 4
    /\ console.current_game = [cls |-> "MemoryMatchGame"]

\* C2: in MENU, whatever the keypad block did first, the controller block
\* turns an 'up' into selection s -> s - 1 (n - 1 from 0) and a 'down' into
\* s -> s + 1 (0 from n - 1), s being the selection the block found
C2_MenuWrap ==
    (console.running /\ console.state = "MENU" /\ console.controller
        /\ CanProcessInput(console)) =>
    \A key \in Keys, pad \in PadInputs :
       LET c0 == MenuKeypadInput(console, key)
           c == MenuControllerInput(c0, pad)
       IN /\ pad.up => c.current_selection =
                           (IF c0.current_selection = 0 THEN NumGames - 1
                            ELSE c0.current_selection - 1)
          /\ pad.down => c.current_selection =
                           (IF c0.current_selection = NumGames - 1 THEN 0
                            ELSE c0.current_selection + 1)

\* the menu has just moved the selection from the first entry to the last
C2_Witness ==
    /\ last.disp = "MENU" /\ last.sel_in = 0
    /\ console.state = "MENU"
    /\ console.current_selection = NumGames - 1

\* C3: with a peripheral missing, an iteration of the menu never ends in the
\* except clause of run(): the console is not in ERROR after it
C3_MenuToleratesAbsent ==
    last.disp = "MENU" => console.state # "ERROR"

\* C4: a tick whose game constructor raised leaves GAME_STARTING for MENU,
\* not through the except clause of run(), with no current game and
\* games_played as it was
C4_FailedStart ==
    [][ (last'.ctor = "raised" /\ console' # console) =>
           /\ console.state = "GAME_STARTING"
           /\ console'.state = "MENU"
           /\ ~last'.raised
           /\ console'.current_game = NoGame
           /\ console'.games_played = console.games_played ]_vars

\* a second start fails after one game was played
C4_Witness ==
    /\ last.ctor = "raised"
    /\ console.state = "MENU" /\ console.running
    /\ console.games_played = 1

\* C6: GAME_OVER is entered only by _handle_game on a status with game_over;
\* it is left only for MENU, once the hold is over, with the game cleaned up
\* and current_game None; and once the hold is over every iteration of the
\* main loop leaves it for MENU, unless the window is closed
C6_GameOver ==
    /\ [][ (console.state # "GAME_OVER" /\ console'.state = "GAME_OVER") =>
              (last'.disp = "GAME" /\ last'.upd = "game_over") ]_vars
    /\ [][ (console.state = "GAME_OVER" /\ console'.state # "GAME_OVER") =>
              /\ console.over_elapsed > GameOverHold
              /\ console'.state = "MENU"
              /\ console'.current_game = NoGame
              /\ console'.cleaned = 1 ]_vars
    /\ [](  (console.running /\ console.state = "GAME_OVER"
                /\ console.has_over_start
                /\ console.over_elapsed > GameOverHold) =>
             \A ev \in PygameEvents :
                LET c == RunIteration(console, event_queue, "none", NoPad,
                                      TRUE, NoUpdate, ev)
                IN (c.state = "MENU" /\ c.current_game = NoGame)
                   \/ ~c.running )

\* the game-over screen has just given way to the menu
C6_Witness ==
    /\ last.disp = "GAME_OVER"
    /\ console.state = "MENU" /\ console.running
    /\ console.current_game = NoGame /\ console.cleaned = 1

\* C7: on the instruction page, key 'B' with nothing pressed on the
\* controller cancels back to MENU
C7_KeyBCancels ==
    (console.running /\ console.state = "INSTRUCTION" /\ console.keypad
        /\ CanProcessInput(console)) =>
    HandleInstruction(console, "B", NoPad).state = "MENU"

\* C16: in MENU, INSTRUCTION and GAME_STARTING there is no game instance, and
\* whenever current_game is cleared, the iteration that clears it has called
\* the instance's cleanup() exactly once
C16_InstanceLifetime ==
    /\ [](console.state \in {"MENU", "INSTRUCTION", "GAME_STARTING"} =>
             console.current_game = NoGame)
    /\ [][ (console.current_game # NoGame /\ console'.current_game # NoGame) =>
              console'.current_game = console.current_game ]_vars
    /\ [][ (console.current_game # NoGame /\ console'.current_game = NoGame) =>
              console'.cleaned = 1 ]_vars

\* the ESCAPE key has ended a running game
C16_Witness ==
    /\ last.disp = "GAME" /\ console.state = "MENU" /\ console.running
    /\ console.current_game = NoGame /\ console.cleaned = 1

\* C17: a toggle_pause event turns GAME into GAME_PAUSED and GAME_PAUSED into
\* GAME, and changes nothing in any other state; a short press puts exactly
\* one such event in the queue and touches nothing else, and the main loop
\* then pauses a running game
C17_PauseToggle ==
    /\ [](LET t == HandlePauseToggle(console) IN
          /\ console.state = "GAME" =>
                (t.state = "GAME_PAUSED" /\ HandlePauseToggle(t).state = "GAME")
          /\ console.state = "GAME_PAUSED" => t.state = "GAME"
          /\ console.state \notin {"GAME", "GAME_PAUSED"} => t = console
          /\ t.current_game = console.current_game
          /\ t.current_selection = console.current_selection)
    /\ [](  (console.state = "GAME" /\ console.power_button
               /\ event_queue = << "toggle_pause" >>) =>
            HandlePowerButtonEvents(console, event_queue).state = "GAME_PAUSED")
    /\ [][ (Len(event_queue') > Len(event_queue)
              /\ event_queue'[Len(event_queue')] = "toggle_pause") =>
           /\ event_queue' = Append(event_queue, "toggle_pause")
           /\ console' = console ]_vars

\* a running game has been paused
C17_Witness ==
    /\ console.state = "GAME_PAUSED" /\ console.running
    /\ console.current_game # NoGame
    /\ console.traffic_light /\ console.lights = {"yellow"}

\* C18: in GAME_PAUSED the state handler does not call the game's update():
\* whatever update() would do, the handler leaves the console, the game
\* instance included, as it found it
C18_PausedGameUntouched ==
    (console.running /\ console.state = "GAME_PAUSED") =>
    /\ console.current_game # NoGame
    /\ \A upd \in UpdateOutcomes \cup {NoUpdate}, key \in Keys,
          pad \in PadInputs :
          HandleCurrentState(console, key, pad, TRUE, upd) = console

\* a paused game has been resumed and updated again
C18_Witness ==
    /\ last.disp = "GAME" /\ last.upd = "running"
    /\ console.state = "GAME" /\ console.running
    /\ console.current_game # NoGame

\* C19: a return_to_menu event in GAME, GAME_PAUSED or INSTRUCTION ends the
\* game, if any, and gives MENU with the lights off; in any other state it
\* changes nothing, so an iteration of the countdown ends the same with the
\* event as without it; a long press puts exactly one such event in the
\* queue and touches nothing else
C19_ReturnToMenu ==
    /\ [](LET r == HandleReturnToMenu(console) IN
          IF console.state \in {"GAME", "GAME_PAUSED", "INSTRUCTION"}
          THEN /\ r.state = "MENU"
               /\ r.current_game = NoGame
               /\ console.traffic_light => r.lights = {}
               /\ r.cleaned = console.cleaned
                               + (IF console.current_game # NoGame THEN 1 ELSE 0)
               /\ r.current_selection = console.current_selection
          ELSE r = console)
    /\ [](  (console.running /\ console.state = "GAME_STARTING"
                /\ console.power_button) =>
            \A ctor_ok \in BOOLEAN :
               RunIteration(console, << "return_to_menu" >>, "none", NoPad,
                            ctor_ok, NoUpdate, "none")
               = RunIteration(console, << >>, "none", NoPad,
                              ctor_ok, NoUpdate, "none"))
    /\ [][ (Len(event_queue') > Len(event_queue)
              /\ event_queue'[Len(event_queue')] = "return_to_menu") =>
           /\ event_queue' = Append(event_queue, "return_to_menu")
           /\ console' = console ]_vars

\* a long press has ended a game: the iteration that handled the event
\* called cleanup() and then dispatched MENU
C19_Witness ==
    /\ last.disp = "MENU" /\ console.state = "MENU" /\ console.running
    /\ console.cleaned = 1 /\ console.current_game = NoGame
    /\ console.traffic_light /\ console.lights = {}

\* C20: once the state is ERROR no step changes it: no input, window event,
\* button event or elapsed time; the loop only ends by running = False
C20_ErrorAbsorbing ==
    /\ [][ console.state = "ERROR" => console'.state = "ERROR" ]_vars
    /\ [](  (console.running /\ console.state = "ERROR") =>
            \A q \in {<< >>, << "toggle_pause" >>, << "return_to_menu" >>},
               key \in Keys, pad \in PadInputs, ev \in PygameEvents :
               LET c == RunIteration(console, q, key, pad, TRUE, NoUpdate, ev)
               IN /\ c.state = "ERROR"
                  /\ c.running = (ev = "none") )

\* the game's update() raised and the console is in ERROR with the game
C20_Witness ==
    /\ console.state = "ERROR" /\ console.running
    /\ last.raised /\ last.upd = "raise"
    /\ console.current_game # NoGame


\* The place of a lamp pattern in the countdown: nothing, red, yellow, green
LampRank(lights) ==
    IF lights = {"red"} THEN 1
    ELSE IF lights = {"yellow"} THEN 2
    ELSE IF lights = {"green"} THEN 3
    ELSE 0

\* The game is built, and GAME entered, only from GAME_STARTING with 1.5 s
\* or more elapsed since the confirm input
StartsAfterCountdown ==
    [][ (console'.state = "GAME" /\ console.state \notin {"GAME", "GAME_PAUSED"})
          \/ (console'.current_game # NoGame /\ console.current_game = NoGame)
        => /\ console.state = "GAME_STARTING"
           /\ console.start_elapsed >= CountdownTotal
           /\ console.current_game = NoGame
           /\ console'.running => console'.current_game # NoGame
           /\ console'.state = "GAME" ]_vars

\* C21 as stated: while the state is GAME_STARTING and the loop runs the
\* lamps never change to
\* an earlier colour of red, yellow, green, and the game is built and GAME
\* entered only once 1.5 s have elapsed since the confirm input
C21_CountdownOrderAlways ==
    /\ [][ ( /\ console.state = "GAME_STARTING"
             /\ console'.state = "GAME_STARTING"
             /\ console'.running )
           => LampRank(console'.lights) >= LampRank(console.lights) ]_vars
    /\ StartsAfterCountdown

\* C21 amended: the same, but for the yellow lamp of the instruction screen,
\* which is still lit on entry to GAME_STARTING and gives way to red in the
\* first countdown frame if that frame comes within 0.5 s; every lamp change
\* during GAME_STARTING shows the colour of the time elapsed
C21_CountdownOrder ==
    /\ [][ ( /\ console.state = "GAME_STARTING"
             /\ console'.state = "GAME_STARTING"
             /\ console'.running
             /\ console'.lights # console.lights )
           => /\ console.traffic_light
              /\ console'.start_elapsed = console.start_elapsed
              /\ LampRank(console'.lights)
                    = 1 + (console.start_elapsed \div CountdownStep)
              /\ \/ LampRank(console'.lights) > LampRank(console.lights)
                 \/ /\ console.lights = {"yellow"}
                    /\ console'.lights = {"red"}
                    /\ console.start_elapsed < CountdownStep ]_vars
    /\ [][ (console.state = "GAME_STARTING" /\ console'.state = "GAME_STARTING")
             => console'.start_elapsed >= console.start_elapsed ]_vars
    /\ [][ (console.state # "GAME_STARTING" /\ console'.state = "GAME_STARTING")
             => /\ console.state = "INSTRUCTION"
                /\ console'.start_elapsed = 0
                /\ console'.lights \in {{}, {"yellow"}} ]_vars
    /\ StartsAfterCountdown

\* The countdown has shown green and the game has just been built
C21_Witness ==
    /\ console.state = "GAME"
    /\ console.running
    /\ console.current_game # NoGame
    /\ last.disp = "GAME_STARTING"
    /\ last.ctor = "ok"
    /\ console.start_elapsed = CountdownTotal
    /\ console.traffic_light
    /\ console.lights = {"green"}

\* C23: whenever the console is in MENU all three lamps are off
C23_MenuLampsOff ==
    (console.running /\ console.state = "MENU") => console.lights = {}

----------------------------------------------------------------------------
(* Properties of initialize_hardware.                                       *)

----------------------------------------------------------------------------
(* Properties of the snake game.                                            *)

\* C8: every update() call returns a status dict that holds the keys
\* game_over, score and paused.
C8_StatusKeys ==
    game.op = "update" => {"game_over", "score", "paused"} \subseteq game.keys

\* C9: after reset_game() the snake is back in its freshly constructed
\* state, the speeds included: current_speed is the initial base speed again.
C9_ResetRestoresSpeed ==
    game.op = "reset" =>
        /\ game.g.base_speed = base_speed
        /\ game.g.current_speed2 = 2 * base_speed
        /\ game.g.score = 0
        /\ game.g.snake = << Centre >>

\* C10: two snake instances given the same random draws and the same
\* sequence of inputs are in the same game state after every update(),
\* however the calls are spaced on the wall clock.
C10_TwinsAgree ==
    twin.calls > 0 =>
        /\ twin.a.snake = twin.b.snake
        /\ twin.a.direction = twin.b.direction
        /\ twin.a.score = twin.b.score
        /\ twin.a.game_over = twin.b.game_over

----------------------------------------------------------------------------
(* Properties of _merge_config.                                             *)

\* C15: the merged config has every key of the defaults at both levels,
\* holds the user's value wherever the user gives one for a default key, and
\* has no key that the defaults do not have
C15_MergeConfig ==
    config.phase = "merged" =>
    LET r == config.result
        u == config.user
    IN \A k \in TopKeys :
          /\ default_config[k].kind = "absent" => r[k].kind = "absent"
          /\ default_config[k].kind = "dict" =>
                /\ r[k].kind = "dict"
                /\ \A j \in InnerKeys :
                      LET dj == default_config[k].d[j] IN
                      /\ dj.kind = "absent" => r[k].d[j].kind = "absent"
                      /\ dj.kind # "absent" =>
                            r[k].d[j] =
                               (IF u[k].kind = "dict" /\ u[k].d[j].kind # "absent"
                                THEN u[k].d[j] ELSE dj)

----------------------------------------------------------------------------
(* Properties of BuzzerControl.                                             *)

\* C11: the worker plays at most one task at a time, the task it holds
\* between is_playing = True and is_playing = False, and the tasks it has
\* begun are in the order in which play_tone and play_melody enqueued them
C11_SerialFifo ==
    LET b == buzzer_control
    IN b.phase = "live" =>
         /\ Cardinality(b.playing) <= 1
         /\ b.playing = IF b.worker.pc \in {"check", "note", "finish"}
                        THEN {b.worker.task.id} ELSE {}
         /\ b.is_playing = (b.playing # {})
         /\ \A m, n \in 1..Len(b.played) : m < n => b.played[m] < b.played[n]
         /\ \A m \in 1..Len(b.played) :
               /\ b.played[m] \in 1..b.next_id
               /\ \A n \in 1..Len(b.music_queue) :
                     b.music_queue[n].type # "none" =>
                        b.played[m] < b.music_queue[n].id

\* A third task is being played while a later one waits in the queue
C11_Witness ==
    /\ buzzer_control.phase = "live"
    /\ Len(buzzer_control.played) = 3
    /\ buzzer_control.worker.pc = "note"
    /\ Len(buzzer_control.music_queue) >= 1
    /\ buzzer_control.music_queue[1].type # "none"

C13_StopFlag ==
    /\ [][ (buzzer_control.phase = "live" /\ buzzer_control.worker.observed)
             => ~ ( /\ buzzer_control.worker.pc # "note"
                    /\ buzzer_control'.worker.pc = "note" ) ]_vars
    /\ [][ (buzzer_control.phase = "live" /\ buzzer_control.stop_current
              /\ ~buzzer_control'.stop_current)
             => /\ buzzer_control.worker.pc = "got"
                /\ buzzer_control'.worker.pc \in {"check", "note"}
                /\ buzzer_control'.is_playing
                /\ buzzer_control'.played =
                      Append(buzzer_control.played,
                             buzzer_control.worker.task.id) ]_vars

\* stop_all cut a melody short during its first note, and the melody loop
\* then ended the task although a note was left
C13_Witness ==
    /\ buzzer_control.phase = "live"
    /\ buzzer_control.worker.pc = "finish"
    /\ buzzer_control.worker.task.type = "melody"
    /\ buzzer_control.worker.observed
    /\ buzzer_control.worker.n = MaxNotes
    /\ buzzer_control.worker.stepped
    /\ buzzer_control.stop_current
    /\ buzzer_control.caller.op = "stop_all"

----------------------------------------------------------------------------
(* Properties of the threads.                                               *)

\* C14: each peripheral has one owner: the system monitor thread is never
\* inside the controller driver while the main loop is inside it
C14_SingleOwner ==
    threads.phase = "live" =>
       ~ (threads.main \in InDriver /\ threads.monitor \in InDriver)

----------------------------------------------------------------------------
(* Properties of TrafficLight.                                              *)

\* C22: at most one lamp is lit at any time, and when red_on, yellow_on or
\* green_on has returned exactly its lamp is lit; after all_off and cleanup
\* none is
C22_OneLamp ==
    light.phase = "live" =>
       /\ Cardinality(Lit(light.pins)) <= 1
       /\ (light.method = "none" /\ light.returned # "none") =>
             Lit(light.pins) = IF LampOf(light.returned) \in Lamps
                               THEN {LampOf(light.returned)} ELSE {}

\* green_on is turning the red lamp off: red is still lit, two pins to go
C22_Witness ==
    /\ light.phase = "live"
    /\ light.returned = "red_on"
    /\ light.method = "green_on"
    /\ light.i = 0
    /\ Lit(light.pins) = {"red"}

----------------------------------------------------------------------------
(* Properties of MatrixKeypad.                                              *)

\* C28 as stated: a key held down across one or more get_key calls has been
\* returned exactly once during the hold
C28_HeldOnce ==
    keypad.phase = "live" =>
       \A key \in keypad.held :
          keypad.hold[key].calls >= 1 => keypad.hold[key].returned = 1

\* C28 amended: get_key returns a key exactly in the calls whose scan sees
\* that key when the scan before saw no key or another key, so that a key
\* seen by consecutive scans is returned once, by the first of them; a call
\* within 0.05 s of the last detected press does not scan and returns None;
\* and during one hold a key is returned at most once unless a scan between
\* saw no key or another key
C28_EdgeTriggered ==
    /\ [](keypad.phase = "live" =>
            /\ keypad.within => (keypad.ret = "none" /\ ~keypad.scanned)
            /\ keypad.scanned =>
                  keypad.ret = IF keypad.seen # keypad.prev_seen
                               THEN keypad.seen ELSE "none"
            /\ keypad.last_key = keypad.seen)
    /\ [][ (keypad.phase = "live" /\ keypad'.within # keypad.within)
              => (keypad'.within <=> keypad.since_press < DEBOUNCE_DELAY) ]_vars
    /\ [][ \A key \in PressableKeys :
              ( /\ keypad.phase = "live"
                /\ key \in keypad.held
                /\ keypad.hold[key].returned >= 1
                /\ keypad'.hold[key].returned > keypad.hold[key].returned )
              => keypad.seen # key ]_vars

\* Key 1 has been held across two scans and more, and was returned by the
\* first of them only
C28_Witness ==
    /\ keypad.phase = "live"
    /\ keypad.held = {"1"}
    /\ keypad.hold["1"].calls = MaxHoldCount
    /\ keypad.hold["1"].returned = 1
    /\ keypad.scanned
    /\ keypad.seen = "1"
    /\ keypad.prev_seen = "1"
    /\ keypad.ret = "none"

----------------------------------------------------------------------------
(* Properties of GameControlButton.                                         *)

\* C26: a press queues at most one event; once the thread has seen it
\* released, a press held less than 0.05 s has queued nothing, a press held
\* at least 0.05 s and less than 3 s one toggle_pause, and a press held 3 s
\* or more one return_to_menu and no toggle_pause
C26_OneEventPerPress ==
    button.phase = "live" =>
       LET p == button.press IN
       /\ p.toggles + p.returns <= 1
       /\ (p.done /\ p.seen_high /\ button.last_button_state = "HIGH") =>
             /\ p.h < SHORT_PRESS_MIN => (p.toggles = 0 /\ p.returns = 0)
             /\ (p.h >= SHORT_PRESS_MIN /\ p.h < HOLD_DURATION) =>
                   (p.toggles = 1 /\ p.returns = 0)
             /\ p.h >= HOLD_DURATION => (p.toggles = 0 /\ p.returns = 1)

\* C27: the events taken by get_pending_events calls and the events still
\* in the queue are, in this order, the events the thread has put, each once;
\* and the events handled and the events of the list in hand are, in this
\* order, the events taken, each once
C27_ExactlyOnceInOrder ==
    button.phase = "queue" =>
       /\ button.returned \o EventIds(event_queue)
             = [ n \in 1..button.next_id |-> n ]
       /\ button.handled \o EventIds(button.events) = button.returned

\* Two events were taken by one get_pending_events call, the second put while
\* the call was running; the first is handled and a third waits in the queue
C27_Witness ==
    /\ button.phase = "queue"
    /\ button.pc = "handle"
    /\ button.handled = <<1>>
    /\ EventIds(button.events) = <<2>>
    /\ button.returned = <<1, 2>>
    /\ EventIds(event_queue) = <<3>>


----------------------------------------------------------------------------
(* Properties of the session statistics.                                    *)

RECURSIVE SumScores(_)
SumScores(reported) ==
    IF reported = << >> THEN 0
    ELSE Head(reported).score + SumScores(Tail(reported))

ReportedNames(reported) == { reported[i].name : i \in DOMAIN reported }

\* C24: games_played is the number of successful game starts, total_score
\* the sum of the scores reported at each game over (games left through
\* return-to-menu add nothing), and best_scores[name] the maximum score
\* reported at game over for the game with that name
C24_SessionStats ==
    session.phase = "stats" =>
        /\ session.games_played = session.starts
        /\ session.total_score = SumScores(session.reported)
        /\ DOMAIN session.best_scores = ReportedNames(session.reported)
        /\ \A n \in DOMAIN session.best_scores :
              /\ \A i \in DOMAIN session.reported :
                    session.reported[i].name = n
                        => session.reported[i].score <= session.best_scores[n]
              /\ \E i \in DOMAIN session.reported :
                    /\ session.reported[i].name = n
                    /\ session.reported[i].score = session.best_scores[n]

\* Three games were started: two ended with scores 2 and then 1 for the same
\* game, and one was left through return-to-menu
C24_Witness ==
    /\ session.phase = "stats"
    /\ session.state = "MENU"
    /\ session.games_played = 3
    /\ session.quits = 1
    /\ Len(session.reported) = 2
    /\ session.reported[1].name = session.reported[2].name
    /\ session.reported[1].score = 2
    /\ session.reported[2].score = 1
    /\ session.total_score = 3

\* C25: when a game ends with a score strictly higher than the previous best
\* score of that game in the session, the game-over screen of the small
\* display shows the new-record message; otherwise it shows the stored best
\* score
C25_NewRecordShown ==
    ( /\ session.phase = "stats"
      /\ session.spi
      /\ session.state = "GAME_OVER"
      /\ session.has_over_start
      /\ session.prev_best # NoBest )
    => IF StatusScore(session.game_over_data) > session.prev_best
       THEN session.shown.kind = "new_record"
       ELSE /\ session.shown.kind = "best"
            /\ session.shown.high_score = session.prev_best

====
